---- MODULE Spec2Model ----
(***************************************************************************)
(* Model of the daemon life-cycle core of taskController:                  *)
(*   - app::Daemon (include/daemon.hpp, src/daemon.cpp): the state field   *)
(*     m_state, the five callback slots, start_all / reload_all /          *)
(*     close_all / set_state / is_running and the signal handler;          *)
(*   - main() (src/main.cpp): wiring, validation, start, main loop,        *)
(*     wind-down, and the application task thread TaskAppContextFunc.      *)
(*                                                                         *)
(* m_state is a plain (non-atomic, non-volatile) field that the signal     *)
(* handler writes while the main thread reads it.  The main thread's reads *)
(* inside one is_running() call are therefore modelled as a choice between *)
(* the value in memory and the value the call already holds in a register  *)
(* (variable reg); a call to a callback invalidates the register.          *)
(*                                                                         *)
(* TaskManager (include/taskManager.hpp) is a separate class: a table of   *)
(* worker threads and the list of their stop sources, driven by one client *)
(* thread.                                                                 *)
(*                                                                         *)
(* DequeSafe (lib/include/cppsl/container/dequeSafe.hpp) is a std::deque   *)
(* behind a mutex and a condition variable, used by several threads;       *)
(* queueLockFree (lib/include/cppsl/container/queueLockFree.hpp) is a       *)
(* linked list of nodes between two atomic pointers.                        *)
(*                                                                           *)
(* scopedThread and scopedFwdThread (lib/include/cppsl/threading) own one    *)
(* std::thread each and join it on destruction; process_executing            *)
(* (src/appContext.cpp) is the pure policy that gives the task its next      *)
(* wait.                                                                     *)
(*                                                                         *)
(* The specifications:                                                     *)
(*   SpecDaemon  any client calling the public operations of Daemon in any *)
(*               order on one thread, with signals delivered at any step;  *)
(*               the history variables obs and delivered observe it;       *)
(*   SpecMain    the process entry point main() driving the same Daemon;   *)
(*   SpecTasks   a client calling StartTask / StopTask / StopAllTasks and   *)
(*               the destructor of one TaskManager, with its workers.      *)
(*   SpecDeque   threads calling the operations of one DequeSafe;          *)
(*   SpecStress  producer and consumer threads on one DequeSafe, under a   *)
(*               fair scheduler;                                           *)
(*   SpecQueue   one producer and one consumer on one queueLockFree;       *)
(*   SpecQueueMulti  several producers or consumers on one queueLockFree;    *)
(*   SpecQueueClient  one thread calling every operation of a queueLockFree; *)
(*   SpecScoped  a client constructing, moving, joining and destroying the   *)
(*               scoped thread wrappers;                                     *)
(*   SpecTick    calls of process_executing on a range of durations;         *)
(*   SpecDequeSeq  one thread on one DequeSafe, with the history variables   *)
(*               abstract and absResult following a plain sequence;          *)
(*   SpecMainFair  SpecMain under a scheduler that is fair to the task       *)
(*               thread and to the wind-down of main().                      *)
(***************************************************************************)
EXTENDS Naturals, Sequences, FiniteSets

VARIABLES
  m_state,                 \* Daemon::m_state
  m_handlerBeforeToStart,  \* TRUE iff the std::function slot holds a callable
  m_handlerReload,
  m_handlerUser1,
  m_handlerUser2,
  m_handlerBeforeToExit,
  pc,                      \* main thread: position inside a Daemon operation
  reg,                     \* value of m_state the running call holds in a register, or "none"
  ret,                     \* the optional<bool> / bool the main thread got from its last call
  lastOp,                  \* the Daemon operation running or last finished
  opTrace,                 \* the stores and callback invocations of that operation, in order
  obs,                     \* history (SpecDaemon): observations of the calls, see ObsInit
  delivered,               \* history (SpecDaemon): the signal delivery that was the last step
  mainPc,                  \* main(): position in main.cpp
  isDaemon,                \* DaemonConfig::isDaemon
  exitCode,                \* "none" while the process runs, then "success" or "failure"
  taskPc,                  \* TaskAppContextFunc: position
  sooner,                  \* TaskAppContextFunc: local variable sooner (ms)
  stop_requested,          \* stop_src: stop has been requested
  stop_cb,                 \* the std::stop_callback of the task is registered
  event_mutex,             \* daemon_event.event_mutex: "free", "main" or "task"
  m_taskId,                \* TaskManager::m_taskId
  m_threads,               \* TaskManager::m_threads: the keys of the map
  m_stopSources,           \* TaskManager::m_stopSources: the task each element was made for
  tokenStopped,            \* the tasks on whose stop state request_stop was called
  worker,                  \* per task id: "none", "running", "finished" or "joined"
  tmPc,                    \* the client thread: position inside a TaskManager operation
  tmId,                    \* StopTask: the parameter id
  tmIdx,                   \* StopAllTasks: position of the first loop in m_stopSources
  tmRet,                   \* what the last StopTask call returned
  tmOp,                    \* the TaskManager operation running or last finished
  tmPrev,                  \* the operation before it
  tmLog,                   \* history: the effects of tmOp so far, in order
  tmSnap,                  \* history: the manager when tmOp was called
  stoppedAllAt,            \* history: m_taskId when StopAllTasks last returned
  issuedIds,               \* history: the ids StartTask gave, in order
  m_semaphore,             \* DequeSafe::m_semaphore: "free" or the thread that holds it
  m_condition,             \* DequeSafe::m_condition: the threads blocked in wait()
  m_container,             \* DequeSafe::m_container: the elements, front first
  caller,                  \* per thread using the deque: position, call and results
  dqRole,                  \* per thread: which operations its code calls
  dqPlan,                  \* per thread: how many calls its code makes
  spurious,                \* number of spurious wake-ups so far
  pushLog,                 \* history: the pushes in the order they took effect
  popLog,                  \* history: the pops in the order they took effect
  m_head,                  \* queueLockFree::m_head: a node, or nullptr
  m_tail,                  \* queueLockFree::m_tail
  nodes,                   \* the nodes allocated with new node, in allocation order
  qcaller,                 \* per thread using the queue: position, locals and result
  qRole,                   \* per thread: "producer", "consumer" or "none"
  qPlan,                   \* per thread: how many calls its code makes
  qPushLog,                \* history: the values of the push calls, in call order
  qPopLog,                 \* history: the nodes taken by the pops and their payloads
  published,               \* history: number of m_tail.store(p) so far
  removed,                 \* history: number of m_head.store(next) so far
  freedTwice,              \* history: a node was deleted a second time
  scoped,                  \* per scoped thread wrapper: alive, m_thread, m_terminated
  osThread,                \* the threads started so far: state and number of joins
  terminate_called,        \* std::terminate() was called: the process has ended
  tickArgs,                \* the arguments of two process_executing calls (ms)
  tickRets,                \* what the two calls returned (ms), <<>> before they return
  abstract,                \* history (SpecDequeSeq): the sequence the deque stands for
  absResult                \* history (SpecDequeSeq): what its last operation reports

handlerVars == <<m_handlerBeforeToStart, m_handlerReload, m_handlerUser1,
                 m_handlerUser2, m_handlerBeforeToExit>>
callVars == <<pc, reg, ret, lastOp, opTrace>>
daemonVars == <<m_state, handlerVars, callVars>>
histVars == <<obs, delivered>>
mainVars == <<mainPc, isDaemon, exitCode>>
taskVars == <<taskPc, sooner, stop_requested, stop_cb, event_mutex>>
managerVars == <<m_taskId, m_threads, m_stopSources, tokenStopped, worker>>
tmCallVars == <<tmPc, tmId, tmIdx, tmRet, tmOp, tmPrev, tmLog, tmSnap, stoppedAllAt, issuedIds>>
tmVars == <<managerVars, tmCallVars>>
dequeVars == <<m_semaphore, m_condition, m_container, caller, dqRole, dqPlan, spurious,
               pushLog, popLog>>
queueVars == <<m_head, m_tail, nodes, qcaller, qRole, qPlan, qPushLog, qPopLog, published,
               removed, freedTwice>>
contVars == <<dequeVars, queueVars>>
scopedVars == <<scoped, osThread, terminate_called>>
tickVars == <<tickArgs, tickRets>>
absVars == <<abstract, absResult>>
libVars == <<scopedVars, tickVars, absVars>>
vars == <<daemonVars, histVars, mainVars, taskVars, tmVars, contVars, libVars>>

\* enum class State { start, running, reload, stop, user1, user2 }
State == {"start", "running", "reload", "stop", "user1", "user2"}

\* The signals the constructor installs signal_handler for.
ExitSignal == "SIGINT"
TerminateSignal == "SIGTERM"
ReloadSignal == "SIGHUP"
UserSignal1 == "SIGUSR1"
UserSignal2 == "SIGUSR2"
InstalledSignals == {ExitSignal, TerminateSignal, ReloadSignal, UserSignal1, UserSignal2}

\* std::optional<bool>: a callback result.
OptionalBool == {"true", "false", "nullopt"}

\* Effects of a piece of code: <<kind, a, b>>.
Write(s) == <<"write", s, "">>
Call(h, r) == <<"call", h, r>>
Log == <<"log", "", "">>

\* A read of m_state by the main thread inside is_running(): memory, or the
\* register when it holds a value.
ReadState == IF reg = "none" THEN {m_state} ELSE {m_state, reg}

-----------------------------------------------------------------------------
(* Daemon: construction                                                     *)

\* Daemon::Daemon(): m_state = State::start; the callback slots are empty
\* std::function objects; signal_handler is installed for five signals.
DaemonInit ==
  /\ m_state = "start"
  /\ m_handlerBeforeToStart = FALSE
  /\ m_handlerReload = FALSE
  /\ m_handlerUser1 = FALSE
  /\ m_handlerUser2 = FALSE
  /\ m_handlerBeforeToExit = FALSE
  /\ pc = "idle"
  /\ reg = "none"
  /\ ret = "none"
  /\ lastOp = "Daemon"
  /\ opTrace = <<>>

-----------------------------------------------------------------------------
(* Daemon: signal handler                                                   *)

\* Faulty variant of SignalState: the two user signals swapped.
SignalState_Swapped(signal) ==
  CASE signal = ExitSignal -> "stop"
    [] signal = TerminateSignal -> "stop"
    [] signal = ReloadSignal -> "reload"
    [] signal = UserSignal1 -> "user2"
    [] signal = UserSignal2 -> "user1"

\* The switch of signal_handler: the state a signal stores.
SignalState(signal) ==
  CASE signal = ExitSignal -> "stop"
    [] signal = TerminateSignal -> "stop"
    [] signal = ReloadSignal -> "reload"
    [] signal = UserSignal1 -> "user1"
    [] signal = UserSignal2 -> "user2"

\* What Daemon::signal_handler(int signal) does, in order: one spdlog::info
\* call (line 45), then the store of the switch (lines 47-65).
signal_handler_effects(signal) == <<Log, Write(SignalState(signal))>>

\* Daemon::signal_handler(int signal).  It runs asynchronously to the main
\* thread, at any of its steps; its effect on the program state is the store.
signal_handler(signal) ==
  /\ m_state' = signal_handler_effects(signal)[2][2]
  /\ UNCHANGED <<handlerVars, callVars>>

-----------------------------------------------------------------------------
(* Daemon: the public operations, as steps of the one thread that calls    *)
(* them.  A call starts at pc = "idle" and ends there.                      *)

\* start_all(), line 51: m_state = State::running.
start_all_call ==
  /\ pc = "idle"
  /\ m_state' = "running"
  /\ pc' = "start_all_if"
  /\ ret' = "none"
  /\ reg' = "none"
  /\ lastOp' = "start_all"
  /\ opTrace' = <<Write("running")>>
  /\ UNCHANGED handlerVars

\* Faulty variant of start_all_return: a failed callback stops the daemon.
start_all_return_StopOnFalse ==
  /\ pc = "start_all_if"
  /\ pc' = "idle"
  /\ IF m_handlerBeforeToStart
       THEN \E r \in OptionalBool :
              /\ ret' = r
              /\ m_state' = IF r = "false" THEN "stop" ELSE m_state
              /\ opTrace' = Append(opTrace, Call("start", r))
       ELSE /\ ret' = "nullopt"
            /\ UNCHANGED <<m_state, opTrace>>
  /\ UNCHANGED <<reg, lastOp, handlerVars>>

\* start_all(), lines 52-55: return m_handlerBeforeToStart() if bound, else nullopt.
start_all_return ==
  /\ pc = "start_all_if"
  /\ pc' = "idle"
  /\ IF m_handlerBeforeToStart
       THEN \E r \in OptionalBool :
              /\ ret' = r
              /\ opTrace' = Append(opTrace, Call("start", r))
       ELSE /\ ret' = "nullopt"
            /\ UNCHANGED opTrace
  /\ UNCHANGED <<m_state, reg, lastOp, handlerVars>>

\* Faulty variant of reload_all: it runs the reload callback itself.
reload_all_CallsBack ==
  /\ pc = "idle"
  /\ m_state' = "reload"
  /\ ret' = "nullopt"
  /\ reg' = "none"
  /\ lastOp' = "reload_all"
  /\ \E r \in OptionalBool :
       opTrace' = <<Write("reload")>> \o (IF m_handlerReload THEN <<Call("reload", r)>> ELSE <<>>)
  /\ UNCHANGED <<pc, handlerVars>>

\* reload_all(), lines 62-65: m_state = State::reload; return nullopt.
reload_all ==
  /\ pc = "idle"
  /\ m_state' = "reload"
  /\ ret' = "nullopt"
  /\ reg' = "none"
  /\ lastOp' = "reload_all"
  /\ opTrace' = <<Write("reload")>>
  /\ UNCHANGED <<pc, handlerVars>>

\* close_all(), line 72: m_state = State::stop.
close_all_call ==
  /\ pc = "idle"
  /\ m_state' = "stop"
  /\ pc' = "close_all_if"
  /\ ret' = "none"
  /\ reg' = "none"
  /\ lastOp' = "close_all"
  /\ opTrace' = <<Write("stop")>>
  /\ UNCHANGED handlerVars

\* Faulty variant of close_all_return: the callback's result is dropped.
close_all_return_DropsResult ==
  /\ pc = "close_all_if"
  /\ pc' = "idle"
  /\ ret' = "nullopt"
  /\ IF m_handlerBeforeToExit
       THEN \E r \in OptionalBool : opTrace' = Append(opTrace, Call("close", r))
       ELSE UNCHANGED opTrace
  /\ UNCHANGED <<m_state, reg, lastOp, handlerVars>>

\* close_all(), lines 73-76: return m_handlerBeforeToExit() if bound, else nullopt.
close_all_return ==
  /\ pc = "close_all_if"
  /\ pc' = "idle"
  /\ IF m_handlerBeforeToExit
       THEN \E r \in OptionalBool :
              /\ ret' = r
              /\ opTrace' = Append(opTrace, Call("close", r))
       ELSE /\ ret' = "nullopt"
            /\ UNCHANGED opTrace
  /\ UNCHANGED <<m_state, reg, lastOp, handlerVars>>

\* set_state(State stop), lines 146-148.
set_state(s) ==
  /\ pc = "idle"
  /\ m_state' = s
  /\ ret' = "none"
  /\ reg' = "none"
  /\ lastOp' = "set_state"
  /\ opTrace' = <<Write(s)>>
  /\ UNCHANGED <<pc, handlerVars>>

\* What the five set_*_function operations leave alone and record.
SetterCall ==
  /\ pc = "idle"
  /\ lastOp' = "set_function"
  /\ opTrace' = <<>>
  /\ ret' = "none"
  /\ UNCHANGED <<m_state, pc, reg>>

\* set_start_function(func), lines 83-85; callable is func's operator bool.
set_start_function(callable) ==
  /\ SetterCall
  /\ m_handlerBeforeToStart' = callable
  /\ UNCHANGED <<m_handlerReload, m_handlerUser1, m_handlerUser2, m_handlerBeforeToExit>>

\* set_reload_function(func), lines 91-93.
set_reload_function(callable) ==
  /\ SetterCall
  /\ m_handlerReload' = callable
  /\ UNCHANGED <<m_handlerBeforeToStart, m_handlerUser1, m_handlerUser2, m_handlerBeforeToExit>>

\* set_user1_function(func), lines 99-101.
set_user1_function(callable) ==
  /\ SetterCall
  /\ m_handlerUser1' = callable
  /\ UNCHANGED <<m_handlerBeforeToStart, m_handlerReload, m_handlerUser2, m_handlerBeforeToExit>>

\* set_user2_function(func), lines 107-109.
set_user2_function(callable) ==
  /\ SetterCall
  /\ m_handlerUser2' = callable
  /\ UNCHANGED <<m_handlerBeforeToStart, m_handlerReload, m_handlerUser1, m_handlerBeforeToExit>>

\* set_close_function(func), lines 115-117.
set_close_function(callable) ==
  /\ SetterCall
  /\ m_handlerBeforeToExit' = callable
  /\ UNCHANGED <<m_handlerBeforeToStart, m_handlerReload, m_handlerUser1, m_handlerUser2>>

\* Faulty variant of OptionalEqualsFalse: an empty optional counts as false.
OptionalEqualsFalse_NotTrue(r) == r # "true"

\* m_handlerX() == false, lines 167, 179, 191: std::optional<bool> compared
\* with a bool is true only for an engaged optional holding that value.
OptionalEqualsFalse(r) == r = "false"

\* is_running() is called (line 123): nothing is read or written yet.
is_running_call ==
  /\ pc = "idle"
  /\ pc' = "if_reload"
  /\ lastOp' = "is_running"
  /\ opTrace' = <<>>
  /\ reg' = "none"
  /\ ret' = "none"
  /\ UNCHANGED <<m_state, handlerVars>>

\* A test that takes the perform_* branch unless the state is running.
is_running_test_UnlessRunning(at, s, thenAt, elseAt) ==
  /\ pc = at
  /\ \E v \in ReadState :
       /\ reg' = v
       /\ pc' = IF v # "running" THEN thenAt ELSE elseAt
  /\ UNCHANGED <<m_state, ret, lastOp, opTrace, handlerVars>>

\* One test of the if / else-if chain of is_running (lines 124, 126, 128):
\* reads m_state and branches to the perform_* function or to the next test;
\* the tests are at "if_reload", "if_user1" and "if_user2", in this order.
is_running_test(at, s, thenAt, elseAt) ==
  /\ pc = at
  /\ \E v \in ReadState :
       /\ reg' = v
       /\ pc' = IF v = s THEN thenAt ELSE elseAt
  /\ UNCHANGED <<m_state, ret, lastOp, opTrace, handlerVars>>

\* The body shared by perform_reload_if_required, perform_user1_if_required
\* and perform_user2_if_required (lines 164-195), for the callback slot h
\* whose std::function is callable iff bound:
\*   m_state = running; if (handler) { if (handler() == false) m_state = stop; }
perform_if_required(storeAt, callAt, stopAt, h, bound) ==
  \/ /\ pc = storeAt
     /\ m_state' = "running"
     /\ reg' = "running"
     /\ pc' = callAt
     /\ opTrace' = Append(opTrace, Write("running"))
     /\ UNCHANGED <<ret, lastOp, handlerVars>>
  \/ /\ pc = callAt
     /\ IF bound
          THEN \E r \in OptionalBool :
                 /\ opTrace' = Append(opTrace, Call(h, r))
                 /\ reg' = "none"
                 /\ pc' = IF OptionalEqualsFalse(r) THEN stopAt ELSE "return"
          ELSE /\ pc' = "return"
               /\ UNCHANGED <<opTrace, reg>>
     /\ UNCHANGED <<m_state, ret, lastOp, handlerVars>>
  \/ /\ pc = stopAt
     /\ m_state' = "stop"
     /\ reg' = "stop"
     /\ pc' = "return"
     /\ opTrace' = Append(opTrace, Write("stop"))
     /\ UNCHANGED <<ret, lastOp, handlerVars>>

\* perform_reload_if_required(), lines 164-171.
perform_reload_if_required ==
  perform_if_required("reload_store", "reload_call", "reload_stop", "reload", m_handlerReload)

\* perform_user1_if_required(), lines 176-183.
perform_user1_if_required ==
  perform_if_required("user1_store", "user1_call", "user1_stop", "user1", m_handlerUser1)

\* perform_user2_if_required(), lines 188-195.
perform_user2_if_required ==
  perform_if_required("user2_store", "user2_call", "user2_stop", "user2", m_handlerUser2)

\* is_running(), line 131: return m_state == State::running.
is_running_return ==
  /\ pc = "return"
  /\ pc' = "idle"
  /\ \E v \in ReadState : ret' = IF v = "running" THEN "true" ELSE "false"
  /\ reg' = "none"
  /\ UNCHANGED <<m_state, lastOp, opTrace, handlerVars>>

-----------------------------------------------------------------------------
(* History variables of SpecDaemon.  They record what the steps above do    *)
(* and are read by no action.                                               *)
(*   obs.entry          m_state when lastOp was called                      *)
(*   obs.atReturn       m_state when lastOp returned ("none" while it runs) *)
(*   obs.sigSinceCall   a signal was delivered since lastOp was called      *)
(*   obs.stopPending    SIGINT/SIGTERM was delivered; no other signal and   *)
(*                      no state-setting call since                         *)
(*   obs.callAfterStop  is_running() was called with stopPending; no other  *)
(*                      signal since                                        *)
(*   obs.stopSeen       m_state was stop while no operation ran; since then *)
(*                      only signals and is_running() calls                 *)
(*   obs.calledStopped  is_running() was called with stopSeen               *)
(*   obs.started        start_all() was called                              *)
(*   delivered          the signal delivered by the last step, and the      *)
(*                      handler's effects                                   *)

NoDelivery == [signal |-> "none", effects |-> <<>>]

ObsInit ==
  /\ obs = [entry |-> "none", atReturn |-> "none", sigSinceCall |-> FALSE,
            stopPending |-> FALSE, callAfterStop |-> FALSE, stopSeen |-> FALSE,
            calledStopped |-> FALSE, started |-> FALSE]
  /\ delivered = NoDelivery

\* A signal is delivered.
ObsSignal(signal) ==
  /\ delivered' = [signal |-> signal, effects |-> signal_handler_effects(signal)]
  /\ obs' = [obs EXCEPT !.sigSinceCall = TRUE,
                        !.stopPending = (m_state' = "stop"),
                        !.callAfterStop = (@ /\ m_state' = "stop"),
                        !.stopSeen = (@ \/ (pc = "idle" /\ m_state' = "stop"))]

\* start_all, reload_all, close_all or set_state is called.
ObsSettingCall ==
  /\ delivered' = NoDelivery
  /\ obs' = [entry |-> m_state,
             atReturn |-> IF pc' = "idle" THEN m_state' ELSE "none",
             sigSinceCall |-> FALSE, stopPending |-> FALSE, callAfterStop |-> FALSE,
             stopSeen |-> (pc' = "idle" /\ m_state' = "stop"),
             calledStopped |-> FALSE,
             started |-> (obs.started \/ lastOp' = "start_all")]

\* start_all or close_all returns.
ObsSettingReturn ==
  /\ delivered' = NoDelivery
  /\ obs' = [obs EXCEPT !.atReturn = m_state', !.stopSeen = (m_state' = "stop")]

\* A set_*_function operation is called.
ObsSetterCall ==
  /\ delivered' = NoDelivery
  /\ obs' = [obs EXCEPT !.entry = m_state, !.atReturn = m_state, !.sigSinceCall = FALSE]

\* is_running is called.
ObsPollCall ==
  /\ delivered' = NoDelivery
  /\ obs' = [obs EXCEPT !.entry = m_state, !.atReturn = "none", !.sigSinceCall = FALSE,
                        !.callAfterStop = obs.stopPending, !.stopPending = FALSE,
                        !.calledStopped = obs.stopSeen]

\* is_running makes a step between its call and its return.
ObsPollStep ==
  /\ delivered' = NoDelivery
  /\ UNCHANGED obs

\* is_running returns.
ObsPollReturn ==
  /\ delivered' = NoDelivery
  /\ obs' = [obs EXCEPT !.atReturn = m_state, !.stopSeen = (@ \/ m_state = "stop")]

-----------------------------------------------------------------------------
(* TaskManager: construction                                                *)

\* The number of StartTask calls the model follows.  m_taskId is a
\* std::atomic_uint32_t: within this many calls m_taskId++ does not wrap.
MaxTasks == 3

\* The ids StartTask can give within MaxTasks calls, and the ids a client
\* may pass to StopTask (MaxTasks itself is never given).
TaskIds == 0 .. (MaxTasks - 1)
ClientIds == 0 .. MaxTasks

\* The manager as the client sees it at a call.
Manager == [taskId |-> m_taskId, threads |-> m_threads, sources |-> m_stopSources,
            stopped |-> tokenStopped, workers |-> worker]

\* TaskManager() = default: m_taskId{0}, an empty map, an empty vector.
TaskManagerInit ==
  /\ m_taskId = 0
  /\ m_threads = {}
  /\ m_stopSources = <<>>
  /\ tokenStopped = {}
  /\ worker = [id \in TaskIds |-> "none"]
  /\ tmPc = "idle"
  /\ tmId = 0
  /\ tmIdx = 0
  /\ tmRet = "none"
  /\ tmOp = "TaskManager"
  /\ tmPrev = "none"
  /\ tmLog = <<>>
  /\ tmSnap = Manager
  /\ stoppedAllAt = 0
  /\ issuedIds = <<>>

-----------------------------------------------------------------------------
(* DequeSafe (lib/include/cppsl/container/dequeSafe.hpp): construction      *)

\* The threads that may use the one deque.
DequeThreads == {"t1", "t2", "t3", "t4"}

\* The values of TypeElement the callers push (int in the tests).
MaxValue == 2
Values == 1 .. MaxValue

\* What an int holds before anything was assigned to it ("int value;",
\* dequeSafeTest.cpp line 21), and what a read of no element gives.
Indeterminate == 0

\* A reference to an element of m_container: none, the element in cell c,
\* or a reference that designates no element.
NoRef == <<>>
RefTo(c) == <<c>>
Dangling == <<0>>

\* A thread that is in no DequeSafe operation and has called none yet.
CallerInit == [pc |-> "idle", op |-> "none", form |-> "none", arg |-> Indeterminate,
               value |-> Indeterminate, res |-> "none", got |-> Indeterminate,
               ref |-> NoRef, calls |-> 0]

\* DequeSafe() {}: a free mutex, no waiter, an empty std::deque.
DequeSafeInit ==
  /\ m_semaphore = "free"
  /\ m_condition = {}
  /\ m_container = <<>>
  /\ caller = [t \in DequeThreads |-> CallerInit]
  /\ spurious = 0
  /\ pushLog = <<>>
  /\ popLog = <<>>

\* No thread uses the deque.
DequeIdle ==
  /\ DequeSafeInit
  /\ dqRole = [t \in DequeThreads |-> "none"]
  /\ dqPlan = [t \in DequeThreads |-> 0]

-----------------------------------------------------------------------------
(* queueLockFree (lib/include/cppsl/container/queueLockFree.hpp):           *)
(* construction                                                             *)

\* The threads that may use the one queue.
QueueThreads == {"p1", "p2", "c1", "c2"}

\* The null node pointer and the empty std::shared_ptr<T>.
nullptr == 0

\* struct node { std::shared_ptr<T> m_dataSp; node* m_next{nullptr}; } as
\* new node makes it; freed: the node was deleted.
NewNode == [m_dataSp |-> nullptr, m_next |-> nullptr, freed |-> FALSE]

\* A thread that is in no queueLockFree operation and has called none yet.
QCallerInit == [pc |-> "idle", op |-> "none", new_data |-> nullptr, p |-> nullptr,
                old_tail |-> nullptr, old_head |-> nullptr, res |-> nullptr, calls |-> 0]

\* queueLockFree() : m_head(new node), m_tail(m_head.load()) {}
QueueInit ==
  /\ nodes = <<NewNode>>
  /\ m_head = 1
  /\ m_tail = 1
  /\ qcaller = [t \in QueueThreads |-> QCallerInit]
  /\ qPushLog = <<>>
  /\ qPopLog = <<>>
  /\ published = 0
  /\ removed = 0
  /\ freedTwice = FALSE

\* No thread uses the queue.
QueueIdle ==
  /\ QueueInit
  /\ qRole = [t \in QueueThreads |-> "none"]
  /\ qPlan = [t \in QueueThreads |-> 0]

ContainersIdle == DequeIdle /\ QueueIdle

-----------------------------------------------------------------------------
(* ScopedThreadForwarding (lib/include/cppsl/threading/scopedThread.hpp)    *)
(* and ScopedFwdThread (lib/include/cppsl/threading/scopedFwdThread.hpp):   *)
(* objects that hold a std::thread.                                         *)

\* The objects of class ScopedThreadForwarding and of class ScopedFwdThread.
Forwarding == {"a", "b"}
FwdThreads == {"f"}
Wrappers == Forwarding \cup FwdThreads

\* A std::thread that is not joinable holds no thread.
NoThread == 0

\* No object exists and no thread was started.
ScopedInit ==
  /\ scoped = [w \in Wrappers |->
                [alive |-> FALSE, m_thread |-> NoThread, m_terminated |-> FALSE]]
  /\ osThread = <<>>
  /\ terminate_called = FALSE

\* No process_executing call is looked at.
TickIdle == tickArgs = <<>> /\ tickRets = <<>>

\* The abstract sequence is empty and no operation was applied to it.
NoResult == [defined |-> FALSE, val |-> <<>>, given |-> <<>>]
AbsInit == abstract = <<>> /\ absResult = NoResult

LibIdle == ScopedInit /\ TickIdle /\ AbsInit

-----------------------------------------------------------------------------
(* SpecDaemon: a client thread calls the public operations in any order;   *)
(* signals arrive at any step.  main() and its task thread do not run.     *)

MainIdle ==
  /\ mainPc = "none"
  /\ isDaemon = FALSE
  /\ exitCode = "none"

TaskIdle ==
  /\ taskPc = "none"
  /\ sooner = 1000
  /\ stop_requested = FALSE
  /\ stop_cb = FALSE
  /\ event_mutex = "free"

InitDaemon ==
  DaemonInit /\ ObsInit /\ MainIdle /\ TaskIdle /\ TaskManagerInit /\ ContainersIdle /\ LibIdle

\* The callback slots are set during start-up wiring, before the first call
\* of another operation (as main() does, main.cpp lines 296-320).
Wiring == lastOp \in {"Daemon", "set_function"}

\* What no step of the client thread and no signal delivery touches.
NoMain == UNCHANGED <<mainVars, taskVars, tmVars, contVars, libVars>>

NextDaemon ==
  \/ start_all_call /\ ObsSettingCall /\ NoMain
  \/ start_all_return /\ ObsSettingReturn /\ NoMain
  \/ reload_all /\ ObsSettingCall /\ NoMain
  \/ close_all_call /\ ObsSettingCall /\ NoMain
  \/ close_all_return /\ ObsSettingReturn /\ NoMain
  \/ \E s \in State : set_state(s) /\ ObsSettingCall /\ NoMain
  \/ \E callable \in BOOLEAN :
       Wiring /\ set_start_function(callable) /\ ObsSetterCall /\ NoMain
  \/ \E callable \in BOOLEAN :
       Wiring /\ set_reload_function(callable) /\ ObsSetterCall /\ NoMain
  \/ \E callable \in BOOLEAN :
       Wiring /\ set_user1_function(callable) /\ ObsSetterCall /\ NoMain
  \/ \E callable \in BOOLEAN :
       Wiring /\ set_user2_function(callable) /\ ObsSetterCall /\ NoMain
  \/ \E callable \in BOOLEAN :
       Wiring /\ set_close_function(callable) /\ ObsSetterCall /\ NoMain
  \/ is_running_call /\ ObsPollCall /\ NoMain
  \/ is_running_test("if_reload", "reload", "reload_store", "if_user1") /\ ObsPollStep /\ NoMain
  \/ is_running_test("if_user1", "user1", "user1_store", "if_user2") /\ ObsPollStep /\ NoMain
  \/ is_running_test("if_user2", "user2", "user2_store", "return") /\ ObsPollStep /\ NoMain
  \/ perform_reload_if_required /\ ObsPollStep /\ NoMain
  \/ perform_user1_if_required /\ ObsPollStep /\ NoMain
  \/ perform_user2_if_required /\ ObsPollStep /\ NoMain
  \/ is_running_return /\ ObsPollReturn /\ NoMain
  \/ \E signal \in InstalledSignals : signal_handler(signal) /\ ObsSignal(signal) /\ NoMain

SpecDaemon == InitDaemon /\ [][NextDaemon]_vars

-----------------------------------------------------------------------------
(* The application task thread: TaskAppContextFunc, main.cpp lines 235-264  *)

\* A policy that keeps the longest delay above the ceiling.
process_executing_Saturates(min_duration) ==
  IF min_duration > 5000 THEN 6000 ELSE min_duration + 1000

\* AppContext::process_executing, appContext.cpp lines 183-187 (milliseconds).
process_executing(min_duration) ==
  IF min_duration > 5000 THEN 1000 ELSE min_duration + 1000

\* condition_variable::notify_all on daemon_event.event_condition: the task,
\* if it waits, is woken.
NotifiedTaskPc == IF taskPc = "waiting" THEN "woken" ELSE taskPc

\* Lines 239-242: the stop callback is registered; were stop already
\* requested it would run at once (notify_all with no waiter).
task_register_stop_callback ==
  /\ taskPc = "stop_callback"
  /\ stop_cb' = ~stop_requested
  /\ taskPc' = "tick"
  /\ UNCHANGED <<sooner, stop_requested, event_mutex>>

\* Lines 247-250: sooner = process_executing(sooner); wait only if positive.
task_tick ==
  /\ taskPc = "tick"
  /\ sooner' = process_executing(sooner)
  /\ taskPc' = IF sooner' > 0 THEN "lock" ELSE "check_stop"
  /\ UNCHANGED <<stop_requested, stop_cb, event_mutex>>

\* Line 252: std::unique_lock lck(daemon_event.event_mutex).
task_lock ==
  /\ taskPc = "lock"
  /\ event_mutex = "free"
  /\ event_mutex' = "task"
  /\ taskPc' = "wait_for"
  /\ UNCHANGED <<sooner, stop_requested, stop_cb>>

\* Line 253: wait_for releases the mutex and blocks.
task_wait_for ==
  /\ taskPc = "wait_for"
  /\ event_mutex' = "free"
  /\ taskPc' = "waiting"
  /\ UNCHANGED <<sooner, stop_requested, stop_cb>>

\* A wait without a timeout: only a notification ends it.
task_timeout_Never ==
  /\ taskPc = "waiting"
  /\ FALSE
  /\ UNCHANGED <<taskPc, sooner, stop_requested, stop_cb, event_mutex>>

\* Line 253: the wait ends by timeout (sooner ms) or spuriously.
task_timeout ==
  /\ taskPc = "waiting"
  /\ taskPc' = "woken"
  /\ UNCHANGED <<sooner, stop_requested, stop_cb, event_mutex>>

\* Line 253: wait_for re-acquires the mutex before it returns.
task_reacquire ==
  /\ taskPc = "woken"
  /\ event_mutex = "free"
  /\ event_mutex' = "task"
  /\ taskPc' = "unlock"
  /\ UNCHANGED <<sooner, stop_requested, stop_cb>>

\* Line 254: end of the locked block.
task_unlock ==
  /\ taskPc = "unlock"
  /\ event_mutex' = "free"
  /\ taskPc' = "check_stop"
  /\ UNCHANGED <<sooner, stop_requested, stop_cb>>

\* Lines 257-261: leave the loop if stop was requested.
task_check_stop ==
  /\ taskPc = "check_stop"
  /\ taskPc' = IF stop_requested THEN "return" ELSE "tick"
  /\ UNCHANGED <<sooner, stop_requested, stop_cb, event_mutex>>

\* Lines 263-264: the function returns; stop_cb is destroyed.
task_return ==
  /\ taskPc = "return"
  /\ stop_cb' = FALSE
  /\ taskPc' = "done"
  /\ UNCHANGED <<sooner, stop_requested, event_mutex>>

-----------------------------------------------------------------------------
(* The process entry point: main(), main.cpp lines 280-408                  *)

\* std::optional<bool>::has_value() and value().
HasValue(result) == result # "nullopt"
Value(result) == result = "true"

\* Faulty variant of check_and_exit_on_error: it only logs the error.
check_and_exit_on_error_OnlyLogs(result) == FALSE

\* Faulty variant of check_and_exit_on_error: an empty optional is an error.
check_and_exit_on_error_UnsetFails(result) == ~(HasValue(result) /\ Value(result))

\* check_and_exit_on_error(result, message), lines 269-274: whether it exits.
check_and_exit_on_error(result) == HasValue(result) /\ ~Value(result)

\* The keys read by handle_console, and its result, lines 204-226.
Keys == {"q", "R", "v", "h", "?", "other"}
handle_console(key) ==
  CASE key = "q" -> "exit"
    [] key = "R" -> "reload"
    [] OTHER -> "none"

\* Daemon::make_daemon, daemon.cpp lines 159-175, in the process that goes
\* on after fork(): pid < 0, init_child_process() and write_pid_to_file().
make_daemon(forkFailed, initialized, isWritten) ==
  IF forkFailed THEN "false"
  ELSE IF ~initialized THEN "false"
  ELSE IF ~isWritten THEN "false"
  ELSE "true"

\* exit(EXIT_FAILURE) / return EXIT_FAILURE / return EXIT_SUCCESS.
Exit(code) == mainPc' = "exit" /\ exitCode' = code

\* Lines 296-320: the five callbacks are bound to lambdas over appContext.
main_set_start_function ==
  /\ mainPc = "set_start_function"
  /\ set_start_function(TRUE)
  /\ mainPc' = "set_close_function"
  /\ UNCHANGED <<isDaemon, exitCode, taskVars>>

main_set_close_function ==
  /\ mainPc = "set_close_function"
  /\ set_close_function(TRUE)
  /\ mainPc' = "set_reload_function"
  /\ UNCHANGED <<isDaemon, exitCode, taskVars>>

main_set_reload_function ==
  /\ mainPc = "set_reload_function"
  /\ set_reload_function(TRUE)
  /\ mainPc' = "set_user1_function"
  /\ UNCHANGED <<isDaemon, exitCode, taskVars>>

main_set_user1_function ==
  /\ mainPc = "set_user1_function"
  /\ set_user1_function(TRUE)
  /\ mainPc' = "set_user2_function"
  /\ UNCHANGED <<isDaemon, exitCode, taskVars>>

main_set_user2_function ==
  /\ mainPc = "set_user2_function"
  /\ set_user2_function(TRUE)
  /\ mainPc' = "validate"
  /\ UNCHANGED <<isDaemon, exitCode, taskVars>>

\* A call main() makes outside the Daemon operations gives it a result.
MainResult(op, result) ==
  /\ pc = "idle"
  /\ ret' = result
  /\ lastOp' = op
  /\ opTrace' = <<>>
  /\ UNCHANGED <<m_state, handlerVars, pc, reg>>

\* Line 325: appContext.validate_configuration(appConfig) returns its result.
main_validate ==
  /\ mainPc = "validate"
  /\ \E result \in OptionalBool : MainResult("validate_configuration", result)
  /\ mainPc' = "validate_result"
  /\ UNCHANGED <<isDaemon, exitCode, taskVars>>

\* Line 325: check_and_exit_on_error(result, "configuration mismatch").
main_validate_result ==
  /\ mainPc = "validate_result"
  /\ IF check_and_exit_on_error(ret)
       THEN Exit("failure")
       ELSE mainPc' = "start_all" /\ UNCHANGED exitCode
  /\ UNCHANGED <<isDaemon, daemonVars, taskVars>>

\* Line 338: daemon.start_all() is called.
main_start_all ==
  /\ mainPc = "start_all"
  /\ start_all_call
  /\ mainPc' = "start_all_result"
  /\ UNCHANGED <<isDaemon, exitCode, taskVars>>

\* Lines 338-343: start_all() has returned; a present false is a failure.
main_start_all_result ==
  /\ mainPc = "start_all_result"
  /\ pc = "idle"
  /\ IF HasValue(ret) /\ ~Value(ret)
       THEN Exit("failure")
       ELSE /\ mainPc' = IF isDaemon THEN "make_daemon" ELSE "spawn"
            /\ UNCHANGED exitCode
  /\ UNCHANGED <<isDaemon, daemonVars, taskVars>>

\* Line 344, with create_child_process (daemon.cpp lines 72-85): in the
\* parent of a successful fork make_daemon does not return, the parent exits
\* with 0; in the process that goes on it returns its result.
main_make_daemon ==
  /\ mainPc = "make_daemon"
  /\ \/ /\ Exit("success")
        /\ UNCHANGED daemonVars
     \/ /\ \E forkFailed, initialized, isWritten \in BOOLEAN :
             MainResult("make_daemon", make_daemon(forkFailed, initialized, isWritten))
        /\ mainPc' = "make_daemon_result"
        /\ UNCHANGED exitCode
  /\ UNCHANGED <<isDaemon, taskVars>>

\* Lines 344-347: a present false is a failure.
main_make_daemon_result ==
  /\ mainPc = "make_daemon_result"
  /\ IF HasValue(ret) /\ ~Value(ret)
       THEN Exit("failure")
       ELSE mainPc' = "spawn" /\ UNCHANGED exitCode
  /\ UNCHANGED <<isDaemon, daemonVars, taskVars>>

\* Lines 354-355: the application task thread is started.
main_spawn ==
  /\ mainPc = "spawn"
  /\ taskPc' = "stop_callback"
  /\ mainPc' = "loop"
  /\ UNCHANGED <<isDaemon, exitCode, daemonVars, sooner, stop_requested,
                 stop_cb, event_mutex>>

\* Line 365: while (daemon.is_running()): the call.
main_loop ==
  /\ mainPc = "loop"
  /\ is_running_call
  /\ mainPc' = "loop_result"
  /\ UNCHANGED <<isDaemon, exitCode, taskVars>>

\* Line 365: is_running() has returned; the loop goes on iff it returned true.
main_loop_result ==
  /\ mainPc = "loop_result"
  /\ pc = "idle"
  /\ mainPc' = IF ret = "true" THEN "loop_body" ELSE "request_stop"
  /\ UNCHANGED <<isDaemon, exitCode, daemonVars, taskVars>>

\* Lines 366-381: the loop body: a console key, or a sleep of one second.
main_loop_body ==
  /\ mainPc = "loop_body"
  /\ mainPc' = "loop"
  /\ IF ~isDaemon
       THEN \E key \in Keys :
              CASE handle_console(key) = "exit" -> set_state("stop")
                [] handle_console(key) = "reload" -> set_state("reload")
                [] OTHER -> UNCHANGED daemonVars
       ELSE UNCHANGED daemonVars
  /\ UNCHANGED <<isDaemon, exitCode, taskVars>>

\* Line 385: stop_src.request_stop(): the registered stop callback runs in
\* the requesting thread and notifies the condition variable.
main_request_stop ==
  /\ mainPc = "request_stop"
  /\ stop_requested' = TRUE
  /\ taskPc' = IF stop_cb THEN NotifiedTaskPc ELSE taskPc
  /\ mainPc' = "lock"
  /\ UNCHANGED <<isDaemon, exitCode, daemonVars, sooner, stop_cb, event_mutex>>

\* Line 391: std::unique_lock lck(daemon_event.event_mutex).
main_lock ==
  /\ mainPc = "lock"
  /\ event_mutex = "free"
  /\ event_mutex' = "main"
  /\ mainPc' = "notify_all"
  /\ UNCHANGED <<isDaemon, exitCode, daemonVars, taskPc, sooner, stop_requested, stop_cb>>

\* Line 392: daemon_event.event_condition.notify_all().
main_notify_all ==
  /\ mainPc = "notify_all"
  /\ taskPc' = NotifiedTaskPc
  /\ mainPc' = "unlock"
  /\ UNCHANGED <<isDaemon, exitCode, daemonVars, sooner, stop_requested, stop_cb,
                 event_mutex>>

\* Line 393: end of the locked block.
main_unlock ==
  /\ mainPc = "unlock"
  /\ event_mutex' = "free"
  /\ mainPc' = "join"
  /\ UNCHANGED <<isDaemon, exitCode, daemonVars, taskPc, sooner, stop_requested, stop_cb>>

\* A join that does not wait for the task function.
main_join_NoWait ==
  /\ mainPc = "join"
  /\ mainPc' = "close_all"
  /\ UNCHANGED <<isDaemon, exitCode, daemonVars, taskVars>>

\* Line 398: taskAppContext.join() returns once the task function has returned.
main_join ==
  /\ mainPc = "join"
  /\ taskPc = "done"
  /\ mainPc' = "close_all"
  /\ UNCHANGED <<isDaemon, exitCode, daemonVars, taskVars>>

\* Line 400: daemon.close_all() is called.
main_close_all ==
  /\ mainPc = "close_all"
  /\ close_all_call
  /\ mainPc' = "close_all_result"
  /\ UNCHANGED <<isDaemon, exitCode, taskVars>>

\* Lines 400-407: close_all() has returned; a present false is a failure.
main_close_all_result ==
  /\ mainPc = "close_all_result"
  /\ pc = "idle"
  /\ IF HasValue(ret) /\ ~Value(ret) THEN Exit("failure") ELSE Exit("success")
  /\ UNCHANGED <<isDaemon, daemonVars, taskVars>>

-----------------------------------------------------------------------------
(* SpecMain: the process from the first statement of main() to its exit.    *)
(* process_command_line (line 291) has set isDaemon.                        *)

InitMain ==
  /\ DaemonInit
  /\ mainPc = "set_start_function"
  /\ isDaemon \in BOOLEAN
  /\ exitCode = "none"
  /\ TaskIdle
  /\ ObsInit
  /\ TaskManagerInit
  /\ ContainersIdle
  /\ LibIdle

Running == exitCode = "none"

\* What a step of main() itself, of a Daemon operation it called, of the task
\* thread, leaves alone besides the history variables.
OfMain == Running /\ UNCHANGED <<histVars, tmVars, contVars, libVars>>
InDaemon == Running /\ UNCHANGED <<histVars, mainVars, taskVars, tmVars, contVars, libVars>>
OfTask == Running /\ UNCHANGED <<histVars, daemonVars, mainVars, tmVars, contVars, libVars>>

NextMain ==
  \/ main_set_start_function /\ OfMain
  \/ main_set_close_function /\ OfMain
  \/ main_set_reload_function /\ OfMain
  \/ main_set_user1_function /\ OfMain
  \/ main_set_user2_function /\ OfMain
  \/ main_validate /\ OfMain
  \/ main_validate_result /\ OfMain
  \/ main_start_all /\ OfMain
  \/ main_start_all_result /\ OfMain
  \/ main_make_daemon /\ OfMain
  \/ main_make_daemon_result /\ OfMain
  \/ main_spawn /\ OfMain
  \/ main_loop /\ OfMain
  \/ main_loop_result /\ OfMain
  \/ main_loop_body /\ OfMain
  \/ main_request_stop /\ OfMain
  \/ main_lock /\ OfMain
  \/ main_notify_all /\ OfMain
  \/ main_unlock /\ OfMain
  \/ main_join /\ OfMain
  \/ main_close_all /\ OfMain
  \/ main_close_all_result /\ OfMain
  \/ start_all_return /\ InDaemon
  \/ close_all_return /\ InDaemon
  \/ is_running_test("if_reload", "reload", "reload_store", "if_user1") /\ InDaemon
  \/ is_running_test("if_user1", "user1", "user1_store", "if_user2") /\ InDaemon
  \/ is_running_test("if_user2", "user2", "user2_store", "return") /\ InDaemon
  \/ perform_reload_if_required /\ InDaemon
  \/ perform_user1_if_required /\ InDaemon
  \/ perform_user2_if_required /\ InDaemon
  \/ is_running_return /\ InDaemon
  \/ task_register_stop_callback /\ OfTask
  \/ task_tick /\ OfTask
  \/ task_lock /\ OfTask
  \/ task_wait_for /\ OfTask
  \/ task_timeout /\ OfTask
  \/ task_reacquire /\ OfTask
  \/ task_unlock /\ OfTask
  \/ task_check_stop /\ OfTask
  \/ task_return /\ OfTask
  \/ \E signal \in InstalledSignals : signal_handler(signal) /\ InDaemon

SpecMain == InitMain /\ [][NextMain]_vars

-----------------------------------------------------------------------------
(* SpecMainFair: the same process under a scheduler that lets every thread  *)
(* run: the application task thread keeps taking its steps (a timed wait    *)
(* ends after sooner ms at the latest), and main(), once past its loop,     *)
(* keeps taking the steps of lines 391-398.  Nothing is assumed about the   *)
(* main loop, the signals or the console.                                   *)

TaskStep ==
  /\ \/ task_register_stop_callback
     \/ task_tick
     \/ task_lock
     \/ task_wait_for
     \/ task_timeout
     \/ task_reacquire
     \/ task_unlock
     \/ task_check_stop
     \/ task_return
  /\ OfTask

WindDownStep ==
  /\ \/ main_lock
     \/ main_notify_all
     \/ main_unlock
     \/ main_join
  /\ OfMain

SpecMainFair ==
  /\ InitMain
  /\ [][NextMain]_vars
  /\ WF_vars(TaskStep)
  /\ WF_vars(WindDownStep)

-----------------------------------------------------------------------------
(* TaskManager: the operations, as steps of the one client thread, and the  *)
(* worker threads.  A call starts at tmPc = "idle" and ends there; "crashed" *)
(* is the abnormal end of the process, "destroyed" the end of the manager.  *)

\* Effects of a TaskManager operation: <<kind, task id>>.
RequestStop(id) == <<"request_stop", id>>
JthreadRequestStop(id) == <<"jthread_request_stop", id>>
Join(id) == <<"join", id>>
EraseSource(id) == <<"erase_source", id>>
EraseThread(id) == <<"erase_thread", id>>
Undefined == <<"undefined", MaxTasks>>

\* std::vector::erase(begin() + i) for an element that exists (1-based here).
RemoveAt(seq, i) == SubSeq(seq, 1, i - 1) \o SubSeq(seq, i + 1, Len(seq))

\* A call of a TaskManager operation begins.
TmCall(op) ==
  /\ tmPc = "idle"
  /\ tmOp' = op
  /\ tmPrev' = tmOp
  /\ tmLog' = <<>>
  /\ tmSnap' = Manager

\* The process ends abnormally (an outcome of undefined behaviour).
Crash ==
  /\ tmPc' = "crashed"
  /\ UNCHANGED <<managerVars, tmId, tmIdx, tmRet, tmOp, tmPrev, tmLog, tmSnap,
                 stoppedAllAt, issuedIds>>

\* Faulty variant of StartTask: the smallest id not in the table is given.
StartTask_ReusesId ==
  /\ TmCall("StartTask")
  /\ m_taskId < MaxTasks
  /\ LET id == CHOOSE i \in TaskIds : i \notin m_threads /\ \A j \in 0 .. (i - 1) : j \in m_threads IN
       /\ m_taskId' = m_taskId + 1
       /\ m_threads' = m_threads \cup {id}
       /\ worker' = [worker EXCEPT ![id] = "running"]
       /\ m_stopSources' = Append(m_stopSources, id)
       /\ issuedIds' = Append(issuedIds, id)
  /\ UNCHANGED <<tokenStopped, tmPc, tmId, tmIdx, tmRet, stoppedAllAt>>

\* StartTask(func, args...), lines 62-72: id = m_taskId++; a stop source is
\* made; the jthread is emplaced under id and runs func with the token of that
\* stop source; the stop source is appended to m_stopSources.
StartTask ==
  /\ TmCall("StartTask")
  /\ m_taskId < MaxTasks
  /\ LET id == m_taskId IN
       /\ m_taskId' = m_taskId + 1
       /\ m_threads' = m_threads \cup {id}
       /\ worker' = [worker EXCEPT ![id] = "running"]
       /\ m_stopSources' = Append(m_stopSources, id)
       /\ issuedIds' = Append(issuedIds, id)
  /\ UNCHANGED <<tokenStopped, tmPc, tmId, tmIdx, tmRet, stoppedAllAt>>

\* A cooperative worker (the usage of lines 20-26): it polls its token and
\* returns once stop was requested on it.
worker_body(id) ==
  /\ tmPc # "crashed"
  /\ worker[id] = "running"
  /\ id \in tokenStopped
  /\ worker' = [worker EXCEPT ![id] = "finished"]
  /\ UNCHANGED <<m_taskId, m_threads, m_stopSources, tokenStopped, tmCallVars>>

\* StopTask(id), lines 96-99: the call and the test id >= m_taskId.
StopTask_call(id) ==
  /\ TmCall("StopTask")
  /\ tmId' = id
  /\ IF id >= m_taskId
       THEN tmRet' = "false" /\ tmPc' = "idle"
       ELSE tmRet' = "none" /\ tmPc' = "st_request"
  /\ UNCHANGED <<managerVars, tmIdx, stoppedAllAt, issuedIds>>

\* StopTask, line 101: m_stopSources[id].request_stop().  operator[] past
\* the end is undefined: the process ends, or the call goes on having
\* reached no live stop source.
StopTask_request ==
  /\ tmPc = "st_request"
  /\ IF tmId < Len(m_stopSources)
       THEN /\ tokenStopped' = tokenStopped \cup {m_stopSources[tmId + 1]}
            /\ tmLog' = Append(tmLog, RequestStop(m_stopSources[tmId + 1]))
            /\ tmPc' = "st_erase"
            /\ UNCHANGED <<m_taskId, m_threads, m_stopSources, worker, tmId, tmIdx,
                           tmRet, tmOp, tmPrev, tmSnap, stoppedAllAt, issuedIds>>
       ELSE \/ Crash
            \/ /\ tmPc' = "st_erase"
               /\ tmLog' = Append(tmLog, Undefined)
               /\ UNCHANGED <<managerVars, tmId, tmIdx, tmRet, tmOp, tmPrev, tmSnap,
                              stoppedAllAt, issuedIds>>

\* StopTask, line 102: m_stopSources.erase(m_stopSources.begin() + id).
\* erase of a position at or past the end is undefined: the process ends,
\* the vector loses its last element, or the vector is left as it is.
StopTask_erase ==
  /\ tmPc = "st_erase"
  /\ IF tmId < Len(m_stopSources)
       THEN /\ m_stopSources' = RemoveAt(m_stopSources, tmId + 1)
            /\ tmLog' = Append(tmLog, EraseSource(m_stopSources[tmId + 1]))
            /\ tmPc' = "st_find"
            /\ UNCHANGED <<m_taskId, m_threads, tokenStopped, worker, tmId, tmIdx,
                           tmRet, tmOp, tmPrev, tmSnap, stoppedAllAt, issuedIds>>
       ELSE \/ Crash
            \/ /\ Len(m_stopSources) > 0
               /\ m_stopSources' = SubSeq(m_stopSources, 1, Len(m_stopSources) - 1)
               /\ tmLog' = Append(tmLog, Undefined)
               /\ tmPc' = "st_find"
               /\ UNCHANGED <<m_taskId, m_threads, tokenStopped, worker, tmId, tmIdx,
                              tmRet, tmOp, tmPrev, tmSnap, stoppedAllAt, issuedIds>>
            \/ /\ tmLog' = Append(tmLog, Undefined)
               /\ tmPc' = "st_find"
               /\ UNCHANGED <<managerVars, tmId, tmIdx, tmRet, tmOp, tmPrev, tmSnap,
                              stoppedAllAt, issuedIds>>

\* StopTask, lines 104-105: m_threads.find(id); if found, request_stop() on
\* the jthread: on its own stop source, whose token the worker was not given.
StopTask_find ==
  /\ tmPc = "st_find"
  /\ IF tmId \in m_threads
       THEN tmLog' = Append(tmLog, JthreadRequestStop(tmId)) /\ tmPc' = "st_join"
       ELSE tmPc' = "st_end" /\ UNCHANGED tmLog
  /\ UNCHANGED <<managerVars, tmId, tmIdx, tmRet, tmOp, tmPrev, tmSnap, stoppedAllAt,
                 issuedIds>>

\* StopTask, lines 106-109: join() returns once the worker has returned;
\* then the entry is erased.
StopTask_join ==
  /\ tmPc = "st_join"
  /\ worker[tmId] = "finished"
  /\ worker' = [worker EXCEPT ![tmId] = "joined"]
  /\ m_threads' = m_threads \ {tmId}
  /\ tmLog' = tmLog \o <<Join(tmId), EraseThread(tmId)>>
  /\ tmPc' = "st_end"
  /\ UNCHANGED <<m_taskId, m_stopSources, tokenStopped, tmId, tmIdx, tmRet, tmOp,
                 tmPrev, tmSnap, stoppedAllAt, issuedIds>>

\* StopTask, line 111: control flows off the end of a function returning
\* bool, which is undefined: the caller gets either value, or the process ends.
StopTask_end ==
  /\ tmPc = "st_end"
  /\ \/ Crash
     \/ /\ \E r \in {"true", "false"} : tmRet' = r
        /\ tmPc' = "idle"
        /\ UNCHANGED <<managerVars, tmId, tmIdx, tmOp, tmPrev, tmLog, tmSnap,
                       stoppedAllAt, issuedIds>>

\* What a call of StopAllTasks(), from the client or from the destructor, sets.
StopAll_begin(op) ==
  /\ TmCall(op)
  /\ tmPc' = "all_request"
  /\ tmIdx' = 1
  /\ tmRet' = "none"
  /\ UNCHANGED <<managerVars, tmId, stoppedAllAt, issuedIds>>

\* StopAllTasks() is called, line 78.
StopAllTasks_call == StopAll_begin("StopAllTasks")

\* ~TaskManager(), lines 50-52: StopAllTasks().
TaskManager_destructor == StopAll_begin("~TaskManager")

\* StopAllTasks, lines 79-81: request_stop() on each element of m_stopSources.
StopAllTasks_request ==
  /\ tmPc = "all_request"
  /\ IF tmIdx <= Len(m_stopSources)
       THEN /\ tokenStopped' = tokenStopped \cup {m_stopSources[tmIdx]}
            /\ tmLog' = Append(tmLog, RequestStop(m_stopSources[tmIdx]))
            /\ tmIdx' = tmIdx + 1
            /\ UNCHANGED tmPc
       ELSE /\ tmPc' = "all_join"
            /\ tmIdx' = 0
            /\ UNCHANGED <<tokenStopped, tmLog>>
  /\ UNCHANGED <<m_taskId, m_threads, m_stopSources, worker, tmId, tmRet, tmOp, tmPrev,
                 tmSnap, stoppedAllAt, issuedIds>>

\* The threads of the table the second loop has not joined yet.
Unjoined == {id \in m_threads : worker[id] # "joined"}

\* Faulty variant of StopAllTasks_clear: the id counter starts again at 0.
StopAllTasks_clear_ResetsIds ==
  /\ tmPc = "all_join"
  /\ Unjoined = {}
  /\ m_threads' = {}
  /\ m_stopSources' = <<>>
  /\ m_taskId' = 0
  /\ stoppedAllAt' = m_taskId
  /\ tmPc' = IF tmOp = "~TaskManager" THEN "destroyed" ELSE "idle"
  /\ UNCHANGED <<tokenStopped, worker, tmId, tmIdx, tmRet, tmOp, tmPrev, tmLog,
                 tmSnap, issuedIds>>

\* StopAllTasks, lines 82-86: the threads are joined in the order of their
\* ids; join() returns once the worker has returned.
StopAllTasks_join ==
  /\ tmPc = "all_join"
  /\ Unjoined # {}
  /\ LET id == CHOOSE i \in Unjoined : \A j \in Unjoined : i <= j IN
       /\ worker[id] = "finished"
       /\ worker' = [worker EXCEPT ![id] = "joined"]
       /\ tmLog' = Append(tmLog, Join(id))
  /\ UNCHANGED <<m_taskId, m_threads, m_stopSources, tokenStopped, tmPc, tmId, tmIdx,
                 tmRet, tmOp, tmPrev, tmSnap, stoppedAllAt, issuedIds>>

\* StopAllTasks, lines 87-89: both containers are cleared and the call
\* returns; returning from the destructor ends the manager.
StopAllTasks_clear ==
  /\ tmPc = "all_join"
  /\ Unjoined = {}
  /\ m_threads' = {}
  /\ m_stopSources' = <<>>
  /\ stoppedAllAt' = m_taskId
  /\ tmPc' = IF tmOp = "~TaskManager" THEN "destroyed" ELSE "idle"
  /\ UNCHANGED <<m_taskId, tokenStopped, worker, tmId, tmIdx, tmRet, tmOp, tmPrev,
                 tmLog, tmSnap, issuedIds>>

-----------------------------------------------------------------------------
(* SpecTasks: one TaskManager, a client thread calling its operations in    *)
(* any order, and the workers it started.  The Daemon and main() do not run. *)

InitTasks ==
  DaemonInit /\ ObsInit /\ MainIdle /\ TaskIdle /\ TaskManagerInit /\ ContainersIdle /\ LibIdle

\* What no step of the TaskManager touches.
NoDaemon == UNCHANGED <<daemonVars, histVars, mainVars, taskVars, contVars, libVars>>

NextTasks ==
  \/ StartTask /\ NoDaemon
  \/ \E id \in TaskIds : worker_body(id) /\ NoDaemon
  \/ \E id \in ClientIds : StopTask_call(id) /\ NoDaemon
  \/ StopTask_request /\ NoDaemon
  \/ StopTask_erase /\ NoDaemon
  \/ StopTask_find /\ NoDaemon
  \/ StopTask_join /\ NoDaemon
  \/ StopTask_end /\ NoDaemon
  \/ StopAllTasks_call /\ NoDaemon
  \/ TaskManager_destructor /\ NoDaemon
  \/ StopAllTasks_request /\ NoDaemon
  \/ StopAllTasks_join /\ NoDaemon
  \/ StopAllTasks_clear /\ NoDaemon

SpecTasks == InitTasks /\ [][NextTasks]_vars

-----------------------------------------------------------------------------
(* DequeSafe: the operations.  Every operation starts by taking m_semaphore *)
(* (std::lock_guard / std::unique_lock) and gives it back when it returns   *)
(* or, in wait_and_pop_*, while it waits on m_condition.  A thread's        *)
(* position: "idle" (in no operation), "locked" (holds the mutex, body not  *)
(* yet run), "waiting" (blocked in m_condition.wait), "woken" (left the     *)
(* wait, taking the mutex back), "crashed".                                 *)

PushOps == {"push_front", "push_back"}
WaitOps == {"wait_and_pop_front", "wait_and_pop_back"}
TryOps == {"try_pop_front", "try_pop_back"}
PeekOps == {"front", "back"}
DequeOps == PushOps \cup WaitOps \cup TryOps \cup PeekOps \cup {"clear", "empty", "size"}

\* A call: <<operation, overload, argument>>.  The pops exist with a
\* TypeElement& output parameter ("value") and with a std::shared_ptr result
\* ("pointer"); a push has the value to push as its argument.
CallsOf(ops) ==
  {<<op, "none", v>> : op \in ops \cap PushOps, v \in Values}
    \cup {<<op, form, Indeterminate>> : op \in ops \cap (WaitOps \cup TryOps),
                                        form \in {"value", "pointer"}}
    \cup {<<op, "none", Indeterminate>> : op \in ops \ (PushOps \cup WaitOps \cup TryOps)}

DequeCalls == CallsOf(DequeOps)

\* The value a producer loop pushes in its call number n: each producer
\* pushes the numbers of a range of its own, as in the test "Enhanced thread
\* safety" (dequeSafeTest.cpp line 109).
Produced(t, n) == IF t = "t1" THEN n ELSE dqPlan["t1"] + n

\* The calls the code of thread t makes next, by the role of the thread.
RoleCalls(t) ==
  CASE dqRole[t] = "client" -> DequeCalls
    [] dqRole[t] = "producer" ->
         {<<op, "none", Produced(t, caller[t].calls + 1)>> : op \in PushOps}
    [] dqRole[t] = "consumer" -> {c \in CallsOf(WaitOps) : c[2] = "value"}
    [] dqRole[t] = "back_producer" -> CallsOf({"push_back"})
    [] dqRole[t] = "front_consumer" -> CallsOf({"try_pop_front", "wait_and_pop_front"})
    [] dqRole[t] = "other_end" -> CallsOf({"push_front", "try_pop_back", "wait_and_pop_back"})
    [] OTHER -> {}

\* The number of spurious wake-ups the model follows.
MaxSpurious == 1

\* The cell the next pushed element is stored in.
NewCell == Len(pushLog) + 1

\* std::deque: s.front(), s.back(), s without its last element.
Front(s) == s[1]
Back(s) == s[Len(s)]
PopBack(s) == SubSeq(s, 1, Len(s) - 1)

\* The end of a call: the mutex is released by the caller's lock object.
Return(c, t, res) == [c EXCEPT ![t].pc = "idle", ![t].res = res]

\* The process ends (abort, segmentation fault): no thread runs on.
DequeCrash == caller' = [t \in DequeThreads |-> [caller[t] EXCEPT !.pc = "crashed"]]

\* std::lock_guard<std::mutex> lk(m_semaphore) / std::unique_lock: the first
\* statement of every operation; the thread calls op and gets the mutex.
lock_guard(t, op, form, arg) ==
  /\ caller[t].pc = "idle"
  /\ caller[t].calls < dqPlan[t]
  /\ <<op, form, arg>> \in RoleCalls(t)
  /\ m_semaphore = "free"
  /\ m_semaphore' = t
  /\ caller' = [caller EXCEPT ![t].pc = "locked", ![t].op = op, ![t].form = form,
                              ![t].arg = arg, ![t].res = "none",
                              ![t].got = Indeterminate,
                              ![t].calls = @ + 1]
  /\ UNCHANGED <<m_condition, m_container, dqRole, dqPlan, spurious, pushLog, popLog>>

Locked(t, op) == caller[t].pc = "locked" /\ caller[t].op = op /\ m_semaphore = t

\* m_condition.notify_one(): one of the threads blocked in wait(), if there
\* is one, leaves the wait.  The outcomes, as <<waiters, callers>>.
notify_one(c) ==
  IF m_condition = {} THEN {<<m_condition, c>>}
  ELSE {<<m_condition \ {w}, [c EXCEPT ![w].pc = "woken"]>> : w \in m_condition}

\* A push that wakes nobody.
push_NoNotify(t, op, s) ==
  /\ Locked(t, op)
  /\ m_container' = s
  /\ pushLog' = Append(pushLog, [op |-> op, value |-> caller[t].arg])
  /\ m_condition' = m_condition
  /\ caller' = Return(caller, t, "void")
  /\ m_semaphore' = "free"
  /\ UNCHANGED <<dqRole, dqPlan, spurious, popLog>>

\* push_front / push_back: the container becomes s, one waiter is notified.
push(t, op, s) ==
  /\ Locked(t, op)
  /\ m_container' = s
  /\ pushLog' = Append(pushLog, [op |-> op, value |-> caller[t].arg])
  /\ \E o \in notify_one(Return(caller, t, "void")) :
       /\ m_condition' = o[1]
       /\ caller' = o[2]
  /\ m_semaphore' = "free"
  /\ UNCHANGED <<dqRole, dqPlan, spurious, popLog>>

push_front(t) ==
  push(t, "push_front", <<[cell |-> NewCell, value |-> caller[t].arg]>> \o m_container)

\* A push_back that stores the element at the front.
push_back_Prepends(t) ==
  push(t, "push_back", <<[cell |-> NewCell, value |-> caller[t].arg]>> \o m_container)

push_back(t) ==
  push(t, "push_back", Append(m_container, [cell |-> NewCell, value |-> caller[t].arg]))

\* The caller after a pop gave it element e: "value = e" for the overload
\* with an output parameter, a pointer to a copy of e for the other.
Popped(c, t, e) ==
  IF c[t].form = "value"
  THEN [Return(c, t, IF c[t].op \in TryOps THEN "true" ELSE "void") EXCEPT ![t].value = e.value]
  ELSE [Return(c, t, "ptr") EXCEPT ![t].got = e.value]

\* The caller after a try_pop found the deque empty.
NotPopped(c, t) == Return(c, t, IF c[t].form = "value" THEN "false" ELSE "null")

\* Element e leaves the deque, which becomes s, and is handed to the caller.
Take(t, e, s) ==
  /\ m_container' = s
  /\ caller' = Popped(caller, t, e)
  /\ popLog' = Append(popLog, [thread |-> t, op |-> caller[t].op, cell |-> e.cell,
                               value |-> e.value])
  /\ m_semaphore' = "free"
  /\ UNCHANGED m_condition

\* A wait that keeps the mutex while the thread blocks.
Wait_HoldsMutex(t) ==
  /\ m_semaphore' = m_semaphore
  /\ m_condition' = m_condition \cup {t}
  /\ caller' = [caller EXCEPT ![t].pc = "waiting"]
  /\ UNCHANGED <<m_container, popLog>>

\* m_condition.wait(lk, pred) with pred false: the mutex is released and the
\* thread blocks.
Wait(t) ==
  /\ m_semaphore' = "free"
  /\ m_condition' = m_condition \cup {t}
  /\ caller' = [caller EXCEPT ![t].pc = "waiting"]
  /\ UNCHANGED <<m_container, popLog>>

\* wait_and_pop_front, both overloads, from the predicate test on: with an
\* element at hand it is removed and returned, else the thread waits.
wait_and_pop_front(t) ==
  /\ Locked(t, "wait_and_pop_front")
  /\ IF m_container # <<>>
     THEN Take(t, Front(m_container), Tail(m_container))
     ELSE Wait(t)
  /\ UNCHANGED <<dqRole, dqPlan, spurious, pushLog>>

wait_and_pop_back(t) ==
  /\ Locked(t, "wait_and_pop_back")
  /\ IF m_container # <<>>
     THEN Take(t, Back(m_container), PopBack(m_container))
     ELSE Wait(t)
  /\ UNCHANGED <<dqRole, dqPlan, spurious, pushLog>>

\* std::condition_variable::wait may return without a notification.
spurious_wakeup(t) ==
  /\ caller[t].pc = "waiting"
  /\ t \in m_condition
  /\ spurious < MaxSpurious
  /\ spurious' = spurious + 1
  /\ m_condition' = m_condition \ {t}
  /\ caller' = [caller EXCEPT ![t].pc = "woken"]
  /\ UNCHANGED <<m_semaphore, m_container, dqRole, dqPlan, pushLog, popLog>>

\* A wait that takes a wake-up for an element: it takes the mutex back and
\* pops without testing the predicate again.
wait_reacquire_NoRecheck(t) ==
  /\ caller[t].pc = "woken"
  /\ m_semaphore = "free"
  /\ LET e == IF m_container = <<>> THEN [cell |-> 0, value |-> Indeterminate]
              ELSE IF caller[t].op = "wait_and_pop_front" THEN Front(m_container)
              ELSE Back(m_container)
         s == IF m_container = <<>> THEN <<>>
              ELSE IF caller[t].op = "wait_and_pop_front" THEN Tail(m_container)
              ELSE PopBack(m_container)
     IN Take(t, e, s)
  /\ UNCHANGED <<dqRole, dqPlan, spurious, pushLog>>

\* wait() takes the mutex back before it tests the predicate again.
wait_reacquire(t) ==
  /\ caller[t].pc = "woken"
  /\ m_semaphore = "free"
  /\ m_semaphore' = t
  /\ caller' = [caller EXCEPT ![t].pc = "locked"]
  /\ UNCHANGED <<m_condition, m_container, dqRole, dqPlan, spurious, pushLog, popLog>>

\* A try_pop_front that assigns to the output parameter before it tests for
\* emptiness.
try_pop_front_AssignsFirst(t) ==
  /\ Locked(t, "try_pop_front")
  /\ IF m_container = <<>>
     THEN /\ caller' = [NotPopped(caller, t) EXCEPT ![t].value = Indeterminate]
          /\ m_semaphore' = "free"
          /\ UNCHANGED <<m_condition, m_container, popLog>>
     ELSE Take(t, Front(m_container), Tail(m_container))
  /\ UNCHANGED <<dqRole, dqPlan, spurious, pushLog>>

\* try_pop_front, both overloads.
try_pop_front(t) ==
  /\ Locked(t, "try_pop_front")
  /\ IF m_container = <<>>
     THEN /\ caller' = NotPopped(caller, t)
          /\ m_semaphore' = "free"
          /\ UNCHANGED <<m_condition, m_container, popLog>>
     ELSE Take(t, Front(m_container), Tail(m_container))
  /\ UNCHANGED <<dqRole, dqPlan, spurious, pushLog>>

\* A try_pop_back that takes the element at the front.
try_pop_back_TakesFront(t) ==
  /\ Locked(t, "try_pop_back")
  /\ IF m_container = <<>>
     THEN /\ caller' = NotPopped(caller, t)
          /\ m_semaphore' = "free"
          /\ UNCHANGED <<m_condition, m_container, popLog>>
     ELSE Take(t, Front(m_container), Tail(m_container))
  /\ UNCHANGED <<dqRole, dqPlan, spurious, pushLog>>

\* try_pop_back, both overloads.
try_pop_back(t) ==
  /\ Locked(t, "try_pop_back")
  /\ IF m_container = <<>>
     THEN /\ caller' = NotPopped(caller, t)
          /\ m_semaphore' = "free"
          /\ UNCHANGED <<m_condition, m_container, popLog>>
     ELSE Take(t, Back(m_container), PopBack(m_container))
  /\ UNCHANGED <<dqRole, dqPlan, spurious, pushLog>>

\* front() / back() return a reference to the element e.  On an empty deque
\* std::deque::front() / back() is undefined: the call ends the process or
\* returns a reference to no element.
peek(t, op, r) ==
  /\ Locked(t, op)
  /\ IF m_container # <<>>
     THEN /\ caller' = [Return(caller, t, "ref") EXCEPT ![t].ref = r]
          /\ m_semaphore' = "free"
     ELSE \/ /\ caller' = [Return(caller, t, "ref") EXCEPT ![t].ref = Dangling]
             /\ m_semaphore' = "free"
          \/ DequeCrash /\ UNCHANGED m_semaphore
  /\ UNCHANGED <<m_condition, m_container, dqRole, dqPlan, spurious, pushLog, popLog>>

front(t) == peek(t, "front", IF m_container = <<>> THEN Dangling ELSE RefTo(Front(m_container).cell))

back(t) == peek(t, "back", IF m_container = <<>> THEN Dangling ELSE RefTo(Back(m_container).cell))

\* The caller reads the element through the reference front() / back() gave
\* it ("deque.front() == 2", dequeSafeTest.cpp lines 18-19): a read of
\* m_container without the mutex.  When the element is no longer in the deque
\* the read is undefined: the process ends, or the read gives any value.
use_ref(t) ==
  /\ caller[t].pc = "idle"
  /\ caller[t].ref # NoRef
  /\ LET here == {i \in 1 .. Len(m_container) : RefTo(m_container[i].cell) = caller[t].ref}
     IN IF here # {}
        THEN \E i \in here :
               caller' = [caller EXCEPT ![t].got = m_container[i].value, ![t].ref = NoRef]
        ELSE \/ \E v \in Values \cup {Indeterminate} :
                  caller' = [caller EXCEPT ![t].got = v, ![t].ref = NoRef]
             \/ DequeCrash
  /\ UNCHANGED <<m_semaphore, m_condition, m_container, dqRole, dqPlan, spurious,
                 pushLog, popLog>>

clear(t) ==
  /\ Locked(t, "clear")
  /\ m_container' = <<>>
  /\ caller' = Return(caller, t, "void")
  /\ m_semaphore' = "free"
  /\ UNCHANGED <<m_condition, dqRole, dqPlan, spurious, pushLog, popLog>>

empty(t) ==
  /\ Locked(t, "empty")
  /\ caller' = Return(caller, t, IF m_container = <<>> THEN "true" ELSE "false")
  /\ m_semaphore' = "free"
  /\ UNCHANGED <<m_condition, m_container, dqRole, dqPlan, spurious, pushLog, popLog>>

size(t) ==
  /\ Locked(t, "size")
  /\ caller' = [Return(caller, t, "size") EXCEPT ![t].got = Len(m_container)]
  /\ m_semaphore' = "free"
  /\ UNCHANGED <<m_condition, m_container, dqRole, dqPlan, spurious, pushLog, popLog>>

-----------------------------------------------------------------------------
(* SpecDeque: one DequeSafe used by threads that call its operations, each  *)
(* thread making dqPlan calls:                                              *)
(*   - a thread that pushes at the back, a thread that pops at the front    *)
(*     and a thread that works at the other ends (the test "Order           *)
(*     preservation", with the third thread added), or                      *)
(*   - two clients that call any operation.                                 *)

\* The number of calls of the pushing and of the popping thread, and of the
\* first client.
FifoCalls == 2
ClientCalls == 2

Roles(r1, r2, r3, r4) == [t \in DequeThreads |->
                          CASE t = "t1" -> r1 [] t = "t2" -> r2 [] t = "t3" -> r3
                            [] OTHER -> r4]

InitProcessIdle == DaemonInit /\ ObsInit /\ MainIdle /\ TaskIdle /\ TaskManagerInit /\ LibIdle

InitDeque ==
  /\ InitProcessIdle
  /\ QueueIdle
  /\ DequeSafeInit
  /\ \/ /\ dqRole = Roles("back_producer", "front_consumer", "other_end", "none")
        /\ dqPlan = Roles(FifoCalls, FifoCalls, 1, 0)
     \/ /\ dqRole = Roles("client", "client", "none", "none")
        /\ dqPlan = Roles(ClientCalls, 1, 0, 0)

\* What no step of a thread using the deque touches.
NoProcess == UNCHANGED <<daemonVars, histVars, mainVars, taskVars, tmVars, queueVars, libVars>>

NextDeque ==
  \/ \E t \in DequeThreads : \E c \in RoleCalls(t) : lock_guard(t, c[1], c[2], c[3]) /\ NoProcess
  \/ \E t \in DequeThreads : push_front(t) /\ NoProcess
  \/ \E t \in DequeThreads : push_back(t) /\ NoProcess
  \/ \E t \in DequeThreads : wait_and_pop_front(t) /\ NoProcess
  \/ \E t \in DequeThreads : wait_and_pop_back(t) /\ NoProcess
  \/ \E t \in DequeThreads : spurious_wakeup(t) /\ NoProcess
  \/ \E t \in DequeThreads : wait_reacquire(t) /\ NoProcess
  \/ \E t \in DequeThreads : try_pop_front(t) /\ NoProcess
  \/ \E t \in DequeThreads : try_pop_back(t) /\ NoProcess
  \/ \E t \in DequeThreads : front(t) /\ NoProcess
  \/ \E t \in DequeThreads : back(t) /\ NoProcess
  \/ \E t \in DequeThreads : use_ref(t) /\ NoProcess
  \/ \E t \in DequeThreads : clear(t) /\ NoProcess
  \/ \E t \in DequeThreads : empty(t) /\ NoProcess
  \/ \E t \in DequeThreads : size(t) /\ NoProcess

SpecDeque == InitDeque /\ [][NextDeque]_vars

-----------------------------------------------------------------------------
(* SpecDequeSeq: one thread calls the operations of one DequeSafe one after *)
(* the other, SeqCalls calls of any operation.  Beside the deque runs a     *)
(* plain sequence of values, abstract, on which every call that returns is  *)
(* repeated as the sequence operation of its name; absResult is what that   *)
(* operation reports (val) and what the call gave its caller (given).  No   *)
(* action reads them.                                                       *)

SeqCalls == 3

\* The sequence after operation op with argument arg.
AbsApply(op, arg, s) ==
  CASE op = "push_front" -> <<arg>> \o s
    [] op = "push_back" -> s \o <<arg>>
    [] op \in {"try_pop_front", "wait_and_pop_front"} ->
         IF s = <<>> THEN s ELSE SubSeq(s, 2, Len(s))
    [] op \in {"try_pop_back", "wait_and_pop_back"} ->
         IF s = <<>> THEN s ELSE SubSeq(s, 1, Len(s) - 1)
    [] op = "clear" -> <<>>
    [] OTHER -> s

\* What operation op reports on sequence s: the element a pop removes
\* (nothing from an empty sequence), the first or the last element, the
\* length, or whether the length is 0 (1 for yes, 0 for no); a push and
\* clear report nothing, front and back of an empty sequence are not
\* defined.
AbsReport(op, s) ==
  CASE op \in {"try_pop_front", "wait_and_pop_front"} ->
         [defined |-> TRUE, val |-> IF s = <<>> THEN <<>> ELSE <<s[1]>>, given |-> <<>>]
    [] op \in {"try_pop_back", "wait_and_pop_back"} ->
         [defined |-> TRUE, val |-> IF s = <<>> THEN <<>> ELSE <<s[Len(s)]>>, given |-> <<>>]
    [] op = "front" -> [defined |-> s # <<>>, val |-> IF s = <<>> THEN <<>> ELSE <<s[1]>>, given |-> <<>>]
    [] op = "back" -> [defined |-> s # <<>>, val |-> IF s = <<>> THEN <<>> ELSE <<s[Len(s)]>>, given |-> <<>>]
    [] op = "size" -> [defined |-> TRUE, val |-> <<Len(s)>>, given |-> <<>>]
    [] op = "empty" -> [defined |-> TRUE, val |-> <<IF Len(s) = 0 THEN 1 ELSE 0>>, given |-> <<>>]
    [] OTHER -> [defined |-> TRUE, val |-> <<>>, given |-> <<>>]

\* What a call gave its caller, whose record is c when the call returns,
\* in the form of AbsReport; a reference stands for the element it
\* designates (the elements pushed so far are log).
Reported(c, log) ==
  CASE c.op \in WaitOps \cup TryOps ->
         IF c.res \in {"false", "null"} THEN <<>>
         ELSE IF c.form = "value" THEN <<c.value>> ELSE <<c.got>>
    [] c.op \in PeekOps ->
         IF c.ref \in {NoRef, Dangling} THEN <<>> ELSE <<log[c.ref[1]].value>>
    [] c.op = "size" -> <<c.got>>
    [] c.op = "empty" -> <<IF c.res = "true" THEN 1 ELSE 0>>
    [] OTHER -> <<>>

\* The call of thread t returns in this step: it is repeated on abstract.
Observe(t) ==
  IF caller[t].pc = "locked" /\ caller'[t].pc = "idle"
  THEN /\ abstract' = AbsApply(caller[t].op, caller[t].arg, abstract)
       /\ absResult' = [AbsReport(caller[t].op, abstract) EXCEPT
                          !.given = Reported(caller'[t], pushLog')]
  ELSE UNCHANGED absVars

InitDequeSeq ==
  /\ DaemonInit /\ ObsInit /\ MainIdle /\ TaskIdle /\ TaskManagerInit
  /\ ScopedInit
  /\ TickIdle
  /\ AbsInit
  /\ QueueIdle
  /\ DequeSafeInit
  /\ dqRole = Roles("client", "none", "none", "none")
  /\ dqPlan = Roles(SeqCalls, 0, 0, 0)

\* What no step of the thread touches.
NoProcessSeq ==
  UNCHANGED <<daemonVars, histVars, mainVars, taskVars, tmVars, queueVars, scopedVars,
              tickVars>>

NextDequeSeq ==
  \/ \E t \in DequeThreads : \E c \in RoleCalls(t) :
       lock_guard(t, c[1], c[2], c[3]) /\ Observe(t) /\ NoProcessSeq
  \/ \E t \in DequeThreads : push_front(t) /\ Observe(t) /\ NoProcessSeq
  \/ \E t \in DequeThreads : push_back(t) /\ Observe(t) /\ NoProcessSeq
  \/ \E t \in DequeThreads : wait_and_pop_front(t) /\ Observe(t) /\ NoProcessSeq
  \/ \E t \in DequeThreads : wait_and_pop_back(t) /\ Observe(t) /\ NoProcessSeq
  \/ \E t \in DequeThreads : spurious_wakeup(t) /\ Observe(t) /\ NoProcessSeq
  \/ \E t \in DequeThreads : wait_reacquire(t) /\ Observe(t) /\ NoProcessSeq
  \/ \E t \in DequeThreads : try_pop_front(t) /\ Observe(t) /\ NoProcessSeq
  \/ \E t \in DequeThreads : try_pop_back(t) /\ Observe(t) /\ NoProcessSeq
  \/ \E t \in DequeThreads : front(t) /\ Observe(t) /\ NoProcessSeq
  \/ \E t \in DequeThreads : back(t) /\ Observe(t) /\ NoProcessSeq
  \/ \E t \in DequeThreads : use_ref(t) /\ Observe(t) /\ NoProcessSeq
  \/ \E t \in DequeThreads : clear(t) /\ Observe(t) /\ NoProcessSeq
  \/ \E t \in DequeThreads : empty(t) /\ Observe(t) /\ NoProcessSeq
  \/ \E t \in DequeThreads : size(t) /\ Observe(t) /\ NoProcessSeq

SpecDequeSeq == InitDequeSeq /\ [][NextDequeSeq]_vars

-----------------------------------------------------------------------------
(* SpecStress: one DequeSafe between producer threads, which push at either *)
(* end, and consumer threads, which pop with wait_and_pop_front /           *)
(* wait_and_pop_back (the tests "Thread safety" and "Enhanced thread        *)
(* safety"): none, one or two producers, one or two consumers, each making  *)
(* 1 .. MaxCalls calls.  The scheduler is fair: a thread that can run is    *)
(* run.  A spurious wake-up may happen but nothing promises it.             *)

MaxCalls == 2

\* The number of calls all producers together make, and all consumers.
MaxPerSide == 3

StressRoles ==
  {Roles(p1, p2, "consumer", c2) : p1 \in {"producer", "none"}, p2 \in {"producer", "none"},
                                   c2 \in {"consumer", "none"}}

InitStress ==
  /\ InitProcessIdle
  /\ QueueIdle
  /\ DequeSafeInit
  /\ dqRole \in {r \in StressRoles : r["t2"] = "producer" => r["t1"] = "producer"}
  /\ dqPlan \in [DequeThreads -> 0 .. MaxCalls]
  /\ \A t \in DequeThreads : dqPlan[t] = 0 <=> dqRole[t] = "none"
  /\ dqPlan["t1"] + dqPlan["t2"] <= MaxPerSide
  /\ dqPlan["t3"] + dqPlan["t4"] <= MaxPerSide

\* The steps of thread t in a producer or consumer loop.
StressStep(t) ==
  \/ \E c \in RoleCalls(t) : lock_guard(t, c[1], c[2], c[3]) /\ NoProcess
  \/ push_front(t) /\ NoProcess
  \/ push_back(t) /\ NoProcess
  \/ wait_and_pop_front(t) /\ NoProcess
  \/ wait_and_pop_back(t) /\ NoProcess
  \/ wait_reacquire(t) /\ NoProcess

NextStress ==
  \/ \E t \in DequeThreads : \E c \in RoleCalls(t) : lock_guard(t, c[1], c[2], c[3]) /\ NoProcess
  \/ \E t \in DequeThreads : push_front(t) /\ NoProcess
  \/ \E t \in DequeThreads : push_back(t) /\ NoProcess
  \/ \E t \in DequeThreads : wait_and_pop_front(t) /\ NoProcess
  \/ \E t \in DequeThreads : wait_and_pop_back(t) /\ NoProcess
  \/ \E t \in DequeThreads : spurious_wakeup(t) /\ NoProcess
  \/ \E t \in DequeThreads : wait_reacquire(t) /\ NoProcess

SpecStress ==
  /\ InitStress
  /\ [][NextStress]_vars
  /\ \A t \in DequeThreads : WF_vars(StressStep(t))

-----------------------------------------------------------------------------
(* queueLockFree: the operations, one step per access to m_head, m_tail or  *)
(* a node.  m_head and m_tail are std::atomic<node*>; the fields of a node  *)
(* are plain.  new node gives a node that no pointer designates yet.  An    *)
(* access through a null pointer ends the process; an access to a deleted   *)
(* node, or a second delete of it, is undefined: it ends the process or     *)
(* goes through on the memory the node had.                                 *)

Live(n) == n \in DOMAIN nodes /\ ~nodes[n].freed

\* The process ends (segmentation fault, abort): no thread runs on.
QueueCrash == qcaller' = [t \in QueueThreads |-> [qcaller[t] EXCEPT !.pc = "crashed"]]

\* push, lines 155-157: the shared pointer to the copy of new_value and the
\* new node p.
push_alloc(t, new_value) ==
  /\ qcaller[t].pc = "idle"
  /\ qRole[t] \in {"producer", "client"}
  /\ qcaller[t].calls < qPlan[t]
  /\ nodes' = Append(nodes, NewNode)
  /\ qcaller' = [qcaller EXCEPT ![t].pc = "load_tail", ![t].op = "push",
                                ![t].new_data = new_value, ![t].p = Len(nodes) + 1,
                                ![t].res = nullptr, ![t].calls = @ + 1]
  /\ qPushLog' = Append(qPushLog, new_value)
  /\ UNCHANGED <<m_head, m_tail, qRole, qPlan, qPopLog, published, removed, freedTwice>>

\* A push that publishes its new node as tail at once.
push_load_tail_Publishes(t) ==
  /\ qcaller[t].pc = "load_tail"
  /\ qcaller' = [qcaller EXCEPT ![t].pc = "swap", ![t].old_tail = m_tail]
  /\ m_tail' = qcaller[t].p
  /\ UNCHANGED <<m_head, nodes, qRole, qPlan, qPushLog, qPopLog, published,
                 removed, freedTwice>>

\* node* const old_tail = m_tail.load();
push_load_tail(t) ==
  /\ qcaller[t].pc = "load_tail"
  /\ qcaller' = [qcaller EXCEPT ![t].pc = "swap", ![t].old_tail = m_tail]
  /\ UNCHANGED <<m_head, m_tail, nodes, qRole, qPlan, qPushLog, qPopLog, published,
                 removed, freedTwice>>

\* A push that stores the value in the new node.
push_swap_IntoNew(t) ==
  /\ qcaller[t].pc = "swap"
  /\ nodes' = [nodes EXCEPT ![qcaller[t].p].m_dataSp = qcaller[t].new_data]
  /\ qcaller' = [qcaller EXCEPT ![t].pc = "link", ![t].new_data = nullptr]
  /\ UNCHANGED <<m_head, m_tail, qRole, qPlan, qPushLog, qPopLog, published, removed,
                 freedTwice>>

\* old_tail->m_dataSp.swap(new_data);
push_swap(t) ==
  /\ qcaller[t].pc = "swap"
  /\ LET n == qcaller[t].old_tail
         swapped ==
           /\ nodes' = [nodes EXCEPT ![n].m_dataSp = qcaller[t].new_data]
           /\ qcaller' = [qcaller EXCEPT ![t].pc = "link", ![t].new_data = nodes[n].m_dataSp]
     IN IF Live(n) THEN swapped
        ELSE IF n = nullptr THEN QueueCrash /\ UNCHANGED nodes
        ELSE swapped \/ (QueueCrash /\ UNCHANGED nodes)
  /\ UNCHANGED <<m_head, m_tail, qRole, qPlan, qPushLog, qPopLog, published, removed,
                 freedTwice>>

\* old_tail->m_next = p;
push_link(t) ==
  /\ qcaller[t].pc = "link"
  /\ LET n == qcaller[t].old_tail
         linked ==
           /\ nodes' = [nodes EXCEPT ![n].m_next = qcaller[t].p]
           /\ qcaller' = [qcaller EXCEPT ![t].pc = "publish"]
     IN IF Live(n) THEN linked
        ELSE IF n = nullptr THEN QueueCrash /\ UNCHANGED nodes
        ELSE linked \/ (QueueCrash /\ UNCHANGED nodes)
  /\ UNCHANGED <<m_head, m_tail, qRole, qPlan, qPushLog, qPopLog, published, removed,
                 freedTwice>>

\* m_tail.store(p); and the return of push.
push_publish(t) ==
  /\ qcaller[t].pc = "publish"
  /\ m_tail' = qcaller[t].p
  /\ published' = published + 1
  /\ qcaller' = [qcaller EXCEPT ![t].pc = "idle"]
  /\ UNCHANGED <<m_head, nodes, qRole, qPlan, qPushLog, qPopLog, removed, freedTwice>>

\* try_pop() / pop() call pop_head(): node* const old_head = m_head.load();
pop_head_load(t, op) ==
  /\ qcaller[t].pc = "idle"
  /\ qRole[t] \in {"consumer", "client"}
  /\ qcaller[t].calls < qPlan[t]
  /\ op \in {"try_pop", "pop"}
  /\ qcaller' = [qcaller EXCEPT ![t].pc = "test", ![t].op = op, ![t].old_head = m_head,
                                ![t].res = nullptr, ![t].calls = @ + 1]
  /\ UNCHANGED <<m_head, m_tail, nodes, qRole, qPlan, qPushLog, qPopLog, published,
                 removed, freedTwice>>

\* A pop_head that does not compare old_head with the tail.
pop_head_test_NoTest(t) ==
  /\ qcaller[t].pc = "test"
  /\ qcaller' = [qcaller EXCEPT ![t].pc = "advance"]
  /\ UNCHANGED <<m_head, m_tail, nodes, qRole, qPlan, qPushLog, qPopLog, published,
                 removed, freedTwice>>

\* if (old_head == m_tail.load()) return nullptr; and then the caller
\* returns an empty pointer.
pop_head_test(t) ==
  /\ qcaller[t].pc = "test"
  /\ qcaller' = IF qcaller[t].old_head = m_tail
                THEN [qcaller EXCEPT ![t].pc = "idle", ![t].res = nullptr]
                ELSE [qcaller EXCEPT ![t].pc = "advance"]
  /\ UNCHANGED <<m_head, m_tail, nodes, qRole, qPlan, qPushLog, qPopLog, published,
                 removed, freedTwice>>

\* A pop_head that leaves m_head where it is.
pop_head_store_KeepsHead(t) ==
  /\ qcaller[t].pc = "advance"
  /\ m_head' = qcaller[t].old_head
  /\ removed' = removed + 1
  /\ qcaller' = [qcaller EXCEPT ![t].pc = "take"]
  /\ UNCHANGED <<m_tail, nodes, qRole, qPlan, qPushLog, qPopLog, published, freedTwice>>

\* m_head.store(old_head->m_next); return old_head;
pop_head_store(t) ==
  /\ qcaller[t].pc = "advance"
  /\ LET n == qcaller[t].old_head
         stored ==
           /\ m_head' = nodes[n].m_next
           /\ removed' = removed + 1
           /\ qcaller' = [qcaller EXCEPT ![t].pc = "take"]
     IN IF Live(n) THEN stored
        ELSE IF n = nullptr THEN QueueCrash /\ UNCHANGED <<m_head, removed>>
        ELSE stored \/ (QueueCrash /\ UNCHANGED <<m_head, removed>>)
  /\ UNCHANGED <<m_tail, nodes, qRole, qPlan, qPushLog, qPopLog, published, freedTwice>>

\* try_pop, lines 127-128, and pop, lines 141-143: the result is the payload
\* of old_head, and old_head is deleted.
pop_take(t) ==
  /\ qcaller[t].pc = "take"
  /\ LET n == qcaller[t].old_head
         taken ==
           /\ qcaller' = [qcaller EXCEPT ![t].pc = "idle", ![t].res = nodes[n].m_dataSp]
           /\ nodes' = [nodes EXCEPT ![n].freed = TRUE]
           /\ freedTwice' = (freedTwice \/ nodes[n].freed)
           /\ qPopLog' = Append(qPopLog, [node |-> n, value |-> nodes[n].m_dataSp])
     IN IF Live(n) THEN taken
        ELSE taken \/ (QueueCrash /\ UNCHANGED <<nodes, freedTwice, qPopLog>>)
  /\ UNCHANGED <<m_head, m_tail, qRole, qPlan, qPushLog, published, removed>>

\* empty(), front() and back(), first statement: the load of m_head (empty,
\* front) or of m_tail (back) into the local pointer.
queue_peek_load(t, op) ==
  /\ qcaller[t].pc = "idle"
  /\ qRole[t] = "client"
  /\ qcaller[t].calls < qPlan[t]
  /\ op \in {"empty", "front", "back"}
  /\ qcaller' = [qcaller EXCEPT ![t].pc = "peek", ![t].op = op,
                                ![t].old_head = IF op = "back" THEN @ ELSE m_head,
                                ![t].old_tail = IF op = "back" THEN m_tail ELSE @,
                                ![t].res = nullptr, ![t].calls = @ + 1]
  /\ UNCHANGED <<m_head, m_tail, nodes, qRole, qPlan, qPushLog, qPopLog, published,
                 removed, freedTwice>>

\* The comparison with the other pointer and the return: empty() returns
\* whether they are equal (res 1 for true, 0 for false); front() returns
\* nullptr or head, back() returns nullptr or tail.
queue_peek_test(t) ==
  /\ qcaller[t].pc = "peek"
  /\ qcaller' =
       [qcaller EXCEPT ![t].pc = "idle",
                       ![t].res =
                         CASE qcaller[t].op = "empty" ->
                                IF qcaller[t].old_head = m_tail THEN 1 ELSE 0
                           [] qcaller[t].op = "front" ->
                                IF qcaller[t].old_head = m_tail THEN nullptr
                                ELSE qcaller[t].old_head
                           [] OTHER ->
                                IF qcaller[t].old_tail = m_head THEN nullptr
                                ELSE qcaller[t].old_tail]
  /\ UNCHANGED <<m_head, m_tail, nodes, qRole, qPlan, qPushLog, qPopLog, published,
                 removed, freedTwice>>

\* What no step of a thread using the queue touches.
NoDeque == UNCHANGED <<daemonVars, histVars, mainVars, taskVars, tmVars, dequeVars, libVars>>

NextQueue ==
  \/ \E t \in QueueThreads, v \in Values : push_alloc(t, v) /\ NoDeque
  \/ \E t \in QueueThreads : push_load_tail(t) /\ NoDeque
  \/ \E t \in QueueThreads : push_swap(t) /\ NoDeque
  \/ \E t \in QueueThreads : push_link(t) /\ NoDeque
  \/ \E t \in QueueThreads : push_publish(t) /\ NoDeque
  \/ \E t \in QueueThreads, op \in {"try_pop", "pop"} : pop_head_load(t, op) /\ NoDeque
  \/ \E t \in QueueThreads : pop_head_test(t) /\ NoDeque
  \/ \E t \in QueueThreads : pop_head_store(t) /\ NoDeque
  \/ \E t \in QueueThreads : pop_take(t) /\ NoDeque

QRoles(r1, r2, r3, r4) == [t \in QueueThreads |->
                           CASE t = "p1" -> r1 [] t = "p2" -> r2 [] t = "c1" -> r3
                             [] OTHER -> r4]

-----------------------------------------------------------------------------
(* SpecQueue: one queueLockFree, one producer thread that pushes and one    *)
(* consumer thread that pops with try_pop / pop, each making up to          *)
(* QueueCalls calls.                                                        *)

QueueCalls == 3

InitQueue ==
  /\ InitProcessIdle
  /\ DequeIdle
  /\ QueueInit
  /\ qRole = QRoles("producer", "none", "consumer", "none")
  /\ \E n, m \in 1 .. QueueCalls : qPlan = QRoles(n, 0, m, 0)

SpecQueue == InitQueue /\ [][NextQueue]_vars

-----------------------------------------------------------------------------
(* SpecQueueMulti: the same queue with two producers or two consumers (or   *)
(* both) at work at the same time, each making 1 .. MultiCalls calls.       *)

MultiCalls == 1

InitQueueMulti ==
  /\ InitProcessIdle
  /\ DequeIdle
  /\ QueueInit
  /\ qRole \in {QRoles("producer", "producer", "consumer", "none"),
                QRoles("producer", "none", "consumer", "consumer"),
                QRoles("producer", "producer", "consumer", "consumer")}
  /\ qPlan \in [QueueThreads -> 0 .. MultiCalls]
  /\ \A t \in QueueThreads : qPlan[t] = 0 <=> qRole[t] = "none"

SpecQueueMulti == InitQueueMulti /\ [][NextQueue]_vars

-----------------------------------------------------------------------------
(* SpecQueueClient: one thread that calls push, try_pop, pop, empty, front  *)
(* and back on one queueLockFree in any order, up to PeekCalls calls, as    *)
(* the test case does.                                                      *)

PeekCalls == 4

InitQueueClient ==
  /\ InitProcessIdle
  /\ DequeIdle
  /\ QueueInit
  /\ qRole = QRoles("none", "none", "client", "none")
  /\ qPlan = QRoles(0, 0, PeekCalls, 0)

NextQueueClient ==
  \/ \E t \in QueueThreads, v \in Values : push_alloc(t, v) /\ NoDeque
  \/ \E t \in QueueThreads : push_load_tail(t) /\ NoDeque
  \/ \E t \in QueueThreads : push_swap(t) /\ NoDeque
  \/ \E t \in QueueThreads : push_link(t) /\ NoDeque
  \/ \E t \in QueueThreads : push_publish(t) /\ NoDeque
  \/ \E t \in QueueThreads, op \in {"try_pop", "pop"} : pop_head_load(t, op) /\ NoDeque
  \/ \E t \in QueueThreads : pop_head_test(t) /\ NoDeque
  \/ \E t \in QueueThreads : pop_head_store(t) /\ NoDeque
  \/ \E t \in QueueThreads : pop_take(t) /\ NoDeque
  \/ \E t \in QueueThreads, op \in {"empty", "front", "back"} :
       queue_peek_load(t, op) /\ NoDeque
  \/ \E t \in QueueThreads : queue_peek_test(t) /\ NoDeque

SpecQueueClient == InitQueueClient /\ [][NextQueueClient]_vars

-----------------------------------------------------------------------------
(* The scoped thread wrappers: the operations.  One client thread creates,  *)
(* moves, joins and destroys the objects; the threads they start return on  *)
(* their own.  std::thread::join() blocks until the thread has returned.    *)
(* Move-assigning to a std::thread that is joinable calls std::terminate(), *)
(* which ends the process.                                                  *)

\* The number of threads the client starts.
MaxThreads == 3

\* std::thread::joinable() of the m_thread of object w.
Joinable(w) == scoped[w].m_thread # NoThread

\* m_thread.join() of object w can return: the thread has returned.
HasReturned(w) == osThread[scoped[w].m_thread].state = "finished"

\* What no operation on a wrapper touches.
NoScoped ==
  UNCHANGED <<daemonVars, histVars, mainVars, taskVars, tmVars, contVars, tickVars, absVars>>

\* The function of a started thread returns.
thread_returns(i) ==
  /\ ~terminate_called
  /\ i \in DOMAIN osThread
  /\ osThread[i].state = "running"
  /\ osThread' = [osThread EXCEPT ![i].state = "finished"]
  /\ UNCHANGED <<scoped, terminate_called>>

\* explicit ScopedThreadForwarding(Args&&... args) : m_thread(args...) and
\* explicit ScopedFwdThread(Func&& func, Args&&... args): with a function
\* the new std::thread runs it; ScopedThreadForwarding with no argument
\* holds no thread.
construct(w, start) ==
  /\ ~terminate_called
  /\ ~scoped[w].alive
  /\ w \in FwdThreads => start
  /\ IF start
     THEN /\ Len(osThread) < MaxThreads
          /\ osThread' = Append(osThread, [state |-> "running", joins |-> 0])
          /\ scoped' = [scoped EXCEPT ![w] = [alive |-> TRUE, m_thread |-> Len(osThread) + 1,
                                              m_terminated |-> FALSE]]
     ELSE /\ scoped' = [scoped EXCEPT ![w] = [alive |-> TRUE, m_thread |-> NoThread,
                                              m_terminated |-> FALSE]]
          /\ UNCHANGED osThread
  /\ UNCHANGED terminate_called

\* ScopedThreadForwarding(ScopedThreadForwarding&& other): the new object's
\* m_thread is default-constructed, then m_thread = std::move(other.m_thread).
move_construct(w, other) ==
  /\ ~terminate_called
  /\ w \in Forwarding /\ other \in Forwarding /\ w # other
  /\ ~scoped[w].alive
  /\ scoped[other].alive
  /\ scoped' = [scoped EXCEPT ![w] = [alive |-> TRUE, m_thread |-> scoped[other].m_thread,
                                      m_terminated |-> FALSE],
                              ![other].m_thread = NoThread]
  /\ UNCHANGED <<osThread, terminate_called>>

\* ScopedThreadForwarding& operator=(ScopedThreadForwarding&& other):
\* m_thread = std::move(other.m_thread), which calls std::terminate() if
\* m_thread is joinable (also when other is the object itself).
move_assign(w, other) ==
  /\ ~terminate_called
  /\ w \in Forwarding /\ other \in Forwarding
  /\ scoped[w].alive
  /\ scoped[other].alive
  /\ IF Joinable(w)
     THEN terminate_called' = TRUE /\ UNCHANGED scoped
     ELSE /\ scoped' = [scoped EXCEPT ![w].m_thread = scoped[other].m_thread,
                                      ![other].m_thread =
                                        IF w = other THEN @ ELSE NoThread]
          /\ UNCHANGED terminate_called
  /\ UNCHANGED osThread

\* The join() of both classes, called by the client (stays = TRUE) or by
\* the destructor (stays = FALSE).  ScopedThreadForwarding: if
\* (m_thread.joinable()) m_thread.join().  ScopedFwdThread: the same if
\* m_terminated is false, and then m_terminated = true.
scoped_join(w, stays) ==
  /\ ~terminate_called
  /\ scoped[w].alive
  /\ IF Joinable(w) /\ ~scoped[w].m_terminated
     THEN /\ HasReturned(w)
          /\ osThread' = [osThread EXCEPT ![scoped[w].m_thread].joins = @ + 1]
          /\ scoped' = [scoped EXCEPT ![w].alive = stays, ![w].m_thread = NoThread,
                                      ![w].m_terminated = (w \in FwdThreads)]
     ELSE /\ scoped' = [scoped EXCEPT ![w].alive = stays,
                                      ![w].m_terminated = (w \in FwdThreads)]
          /\ UNCHANGED osThread
  /\ UNCHANGED terminate_called

\* auto join() / void join()
join(w) == scoped_join(w, TRUE)

\* ~ScopedThreadForwarding() { join(); } and ~ScopedFwdThread() { join(); }
destroy(w) == scoped_join(w, FALSE)

NextScoped ==
  \/ \E i \in 1 .. MaxThreads : thread_returns(i) /\ NoScoped
  \/ \E w \in Wrappers, start \in BOOLEAN : construct(w, start) /\ NoScoped
  \/ \E w, other \in Wrappers : move_construct(w, other) /\ NoScoped
  \/ \E w, other \in Wrappers : move_assign(w, other) /\ NoScoped
  \/ \E w \in Wrappers : join(w) /\ NoScoped
  \/ \E w \in Wrappers : destroy(w) /\ NoScoped

InitScoped ==
  /\ DaemonInit /\ ObsInit /\ MainIdle /\ TaskIdle /\ TaskManagerInit
  /\ ContainersIdle
  /\ TickIdle
  /\ AbsInit
  /\ ScopedInit

SpecScoped == InitScoped /\ [][NextScoped]_vars

-----------------------------------------------------------------------------
(* SpecTick: AppContext::process_executing applied to two minimum delays.   *)
(* The delays are the multiples of TickStep ms up to MaxTick steps and the  *)
(* values next to the 5000 ms ceiling.                                      *)

TickStep == 500
MaxTick == 13

TickInputs == {k * TickStep : k \in 0 .. MaxTick} \cup {4999, 5001}

InitTick ==
  /\ DaemonInit /\ ObsInit /\ MainIdle /\ TaskIdle /\ TaskManagerInit
  /\ ContainersIdle
  /\ ScopedInit
  /\ AbsInit
  /\ tickArgs \in TickInputs \X TickInputs
  /\ tickRets = <<>>

\* The two calls return.
tick_calls ==
  /\ tickRets = <<>>
  /\ tickRets' = <<process_executing(tickArgs[1]), process_executing(tickArgs[2])>>
  /\ UNCHANGED <<tickArgs, daemonVars, histVars, mainVars, taskVars, tmVars, contVars,
                 scopedVars, absVars>>

NextTick ==
  \/ tick_calls

SpecTick == InitTick /\ [][NextTick]_vars

-----------------------------------------------------------------------------
(* Properties of the Daemon state machine (SpecDaemon)                      *)

\* The callback invocations recorded in a sequence of effects.
Calls(trace) == SelectSeq(trace, LAMBDA e : e[1] = "call")

\* The last call of operation op has returned.
Returned(op) == pc = "idle" /\ lastOp = op

\* Whether the callback slot that is_running dispatches state s to is bound.
BoundFor(s) ==
  CASE s = "reload" -> m_handlerReload
    [] s = "user1" -> m_handlerUser1
    [] s = "user2" -> m_handlerUser2

\* C1: an is_running() call entered with state reload, user1 or user2, with
\* no signal delivered since it was called, has invoked exactly the matching
\* callback, once if it is bound and never otherwise, and no other callback;
\* it ends with state stop iff that callback is bound and returned false,
\* else with state running; it returns true iff the final state is running.
C1_PollResolvesRequest ==
  \A s \in {"reload", "user1", "user2"} :
    (Returned("is_running") /\ ~obs.sigSinceCall /\ obs.entry = s) =>
      /\ Calls(opTrace) \in (IF BoundFor(s) THEN {<<Call(s, r)>> : r \in OptionalBool}
                                            ELSE {<<>>})
      /\ m_state = (IF BoundFor(s) /\ Calls(opTrace)[1][3] = "false"
                      THEN "stop" ELSE "running")
      /\ obs.atReturn = m_state
      /\ ret = (IF m_state = "running" THEN "true" ELSE "false")

\* C1 witness: a user1 request whose bound callback returned false was
\* resolved to stop, and is_running() returned false.
C1_Witness ==
  /\ Returned("is_running") /\ ~obs.sigSinceCall
  /\ obs.entry = "user1"
  /\ Calls(opTrace) = <<Call("user1", "false")>>
  /\ m_state = "stop" /\ ret = "false"

\* C2: after SIGINT or SIGTERM was delivered (and no other signal after it),
\* the first is_running() call that begins after the delivery returns false.
C2_StopRequestNeverLost ==
  (Returned("is_running") /\ obs.callAfterStop) => ret = "false"

\* C3: Stop is terminal: once m_state was stop (with no operation running),
\* and only signals and is_running() calls followed, m_state is never
\* running again and every is_running() call begun since then returns false.
C3_StopIsTerminal ==
  obs.stopSeen =>
    /\ m_state # "running"
    /\ (Returned("is_running") /\ obs.calledStopped) => ret = "false"

\* C4: an is_running() call entered in a state other than start (so after
\* start_all) returns false only when the state at its return is stop: never
\* while a reload, user1 or user2 request is pending.
C4_FalseOnlyWhenStopped ==
  (Returned("is_running") /\ ret = "false" /\ obs.entry # "start") =>
    obs.atReturn = "stop"

\* C5: a signal delivery stores the state the fixed table gives for the
\* signal (SIGINT and SIGTERM stop, SIGHUP reload, SIGUSR1 user1, SIGUSR2
\* user2), whatever the state was before: in every state the step after a
\* delivery is in.
C5_SignalTable ==
  /\ delivered.signal = "SIGINT" => m_state = "stop"
  /\ delivered.signal = "SIGTERM" => m_state = "stop"
  /\ delivered.signal = "SIGHUP" => m_state = "reload"
  /\ delivered.signal = "SIGUSR1" => m_state = "user1"
  /\ delivered.signal = "SIGUSR2" => m_state = "user2"

\* C5 witness: SIGUSR2 delivered while close_all() runs, after its store of
\* stop, stored user2.
C5_Witness ==
  /\ delivered.signal = "SIGUSR2" /\ m_state = "user2"
  /\ pc = "close_all_if" /\ opTrace = <<Write("stop")>>

\* C6: the only effect of a signal delivery is the store to m_state: no
\* callback is invoked and no log call is issued.
C6_HandlerOnlyStores ==
  delivered # NoDelivery => delivered.effects = <<Write(m_state)>>

\* C7: start_all() stores running before it invokes the before-start
\* callback, invokes that callback exactly once if it is bound (and no other),
\* returns the callback's result, or nullopt if none is bound, and stores
\* nothing else: the state is running afterwards (when no signal was
\* delivered since the call), also when the callback returned false.
C7_StartAll ==
  /\ pc = "start_all_if" => opTrace = <<Write("running")>>
  /\ Returned("start_all") =>
       /\ opTrace = <<Write("running")>> \o
                      (IF m_handlerBeforeToStart THEN <<Call("start", ret)>> ELSE <<>>)
       /\ ret \in OptionalBool
       /\ (~m_handlerBeforeToStart => ret = "nullopt")
       /\ (~obs.sigSinceCall => m_state = "running")

\* C7 witness: start_all() returned the callback's false and the state is running.
C7_Witness ==
  /\ Returned("start_all") /\ ~obs.sigSinceCall
  /\ opTrace = <<Write("running"), Call("start", "false")>>
  /\ ret = "false" /\ m_state = "running"

\* C8: close_all() stores stop before it invokes the before-close callback,
\* invokes that callback exactly once if it is bound (and no other), returns
\* the callback's result, or nullopt if none is bound, and stores nothing
\* else: the state is stop afterwards (when no signal was delivered since the
\* call) whatever the callback returned.
C8_CloseAll ==
  /\ pc = "close_all_if" => opTrace = <<Write("stop")>>
  /\ Returned("close_all") =>
       /\ opTrace = <<Write("stop")>> \o
                      (IF m_handlerBeforeToExit THEN <<Call("close", ret)>> ELSE <<>>)
       /\ ret \in OptionalBool
       /\ (~m_handlerBeforeToExit => ret = "nullopt")
       /\ (~obs.sigSinceCall => m_state = "stop")

\* C8 witness: close_all() called in state running returned the callback's
\* true and the state is stop.
C8_Witness ==
  /\ Returned("close_all") /\ ~obs.sigSinceCall
  /\ obs.entry = "running"
  /\ opTrace = <<Write("stop"), Call("close", "true")>>
  /\ ret = "true" /\ m_state = "stop"

\* A step that is a call of reload_all().
ReloadAllStep ==
  pc = "idle" /\ pc' = "idle" /\ lastOp' = "reload_all" /\ delivered' = NoDelivery

\* C9: reload_all() only stores reload: it invokes no callback, returns
\* nullopt and changes nothing else; the reload callback is invoked only
\* inside an is_running() call of the calling thread, never by reload_all()
\* and never by a signal delivery.
C9_ReloadAllOnlyRequests ==
  /\ [](lastOp = "reload_all" =>
          /\ pc = "idle" /\ ret = "nullopt"
          /\ opTrace = <<Write("reload")>>
          /\ (~obs.sigSinceCall => m_state = "reload"))
  /\ []((\E i \in 1..Len(opTrace) : opTrace[i][1] = "call" /\ opTrace[i][2] = "reload")
          => lastOp = "is_running")
  /\ [](Calls(delivered.effects) = <<>>)
  /\ [][ReloadAllStep => (m_state' = "reload" /\ UNCHANGED <<handlerVars, mainVars, taskVars>>)]_vars

\* C9 witness: reload_all() was called in state running with a bound reload
\* callback, which has not run; the request is pending.
C9_Witness ==
  /\ lastOp = "reload_all" /\ m_handlerReload
  /\ obs.entry = "running"
  /\ opTrace = <<Write("reload")>>
  /\ m_state = "reload" /\ ~obs.sigSinceCall

-----------------------------------------------------------------------------
(* Properties of the process entry point (SpecMain)                         *)

\* The places where main() has a result in hand and decides on it.
ResultChecks == {"validate_result", "start_all_result", "make_daemon_result",
                 "close_all_result"}

\* main() decides on the result it has in hand.
ResultCheckStep == mainPc \in ResultChecks /\ pc = "idle" /\ mainPc' # mainPc

\* C10: main() exits with failure only on a present false result of
\* validate_configuration, start_all, make_daemon or close_all: on an empty
\* optional (as on true) it goes on to the next stage, and after close_all
\* exits with success.
C10_UnsetIsSuccess ==
  /\ [](exitCode = "failure" => ret = "false")
  /\ [][ResultCheckStep =>
          IF ret = "false" THEN exitCode' = "failure"
          ELSE IF mainPc = "close_all_result" THEN exitCode' = "success"
          ELSE exitCode' = "none" /\ mainPc' \in {"start_all", "make_daemon", "spawn"}]_vars

\* C10 witness: validate_configuration returned an empty optional and main()
\* went on to start_all.
C10_Witness ==
  /\ mainPc = "start_all" /\ exitCode = "none"
  /\ lastOp = "validate_configuration" /\ ret = "nullopt"

\* The operations main() performs before it calls start_all().
BeforeStart == {"Daemon", "set_function", "validate_configuration"}

\* C11: when validate_configuration returned false, main() exits with
\* failure on its next step, and the process does nothing after the exit; up
\* to then start_all() was not called, the task thread was not spawned, and
\* no callback was invoked.
C11_ValidateFalseExitsBeforeStart ==
  /\ [][(mainPc = "validate_result" /\ ret = "false" /\ mainPc' # mainPc) =>
          (mainPc' = "exit" /\ exitCode' = "failure")]_vars
  /\ [][mainPc = "exit" => UNCHANGED vars]_vars
  /\ [](lastOp \in BeforeStart =>
          (pc = "idle" /\ opTrace = <<>> /\ taskPc = "none" /\ ~stop_requested))
  /\ []((mainPc = "exit" /\ lastOp = "validate_configuration") =>
          (exitCode = "failure" /\ ret = "false"))

\* C11 witness: validate_configuration returned false and the process has
\* exited with failure, start_all() not called.
C11_Witness ==
  /\ mainPc = "exit" /\ exitCode = "failure"
  /\ lastOp = "validate_configuration" /\ ret = "false"
  /\ opTrace = <<>> /\ taskPc = "none"

-----------------------------------------------------------------------------
(* Properties of the TaskManager (SpecTasks)                                *)

\* The effects of kind k recorded in the history of the running or last call.
Logged(k) == {tmLog[i][2] : i \in {j \in 1 .. Len(tmLog) : tmLog[j][1] = k}}

\* C12: StopTask(id) for an id that was never given or is no longer in the
\* table returns false at once and does nothing: no stop request, no join, no
\* change of the thread table or of the stop-source list.
C12_StopTaskUnknownIdDoesNothing ==
  (tmOp = "StopTask" /\ tmId \notin tmSnap.threads) =>
    /\ tmPc = "idle" /\ tmRet = "false"
    /\ tmLog = <<>>
    /\ m_threads = tmSnap.threads
    /\ m_stopSources = tmSnap.sources
    /\ tokenStopped = tmSnap.stopped

\* C13: StopTask(id) for a task in the table touches only that task: it
\* requests stop on that task's token and on no other, joins and erases that
\* task's thread only, and returns true with that entry removed.
C13_StopTaskStopsExactlyItsTask ==
  (tmOp = "StopTask" /\ tmId \in tmSnap.threads) =>
    /\ tmPc # "crashed"
    /\ \A i \in 1 .. Len(tmLog) : tmLog[i][2] = tmId
    /\ tokenStopped \subseteq (tmSnap.stopped \cup {tmId})
    /\ tmPc = "idle" =>
         /\ tmRet = "true"
         /\ tmId \in tokenStopped
         /\ Logged("join") = {tmId}
         /\ m_threads = tmSnap.threads \ {tmId}

\* C14: the join inside StopTask never waits on a worker whose token has not
\* been requested to stop (so that, with cooperative workers, it returns).
C14_StopTaskJoinsOnlyRequested ==
  tmPc = "st_join" => tmId \in tokenStopped

\* C15: StopAllTasks() returns only with every thread that was in the table
\* at the call joined and with the table and the stop-source list empty; and
\* every thread it is going to wait for has been requested to stop (so that,
\* with cooperative workers, it returns).
C15_StopAllTasksJoinsAll ==
  /\ (tmOp = "StopAllTasks" /\ tmPc = "idle") =>
       /\ m_threads = {} /\ m_stopSources = <<>>
       /\ \A id \in tmSnap.threads : worker[id] = "joined" /\ id \in Logged("join")
  /\ (tmOp = "StopAllTasks" /\ tmPc = "all_join") =>
       \A id \in Unjoined : id \in tokenStopped

\* C16: after StopAllTasks() has returned, StopTask(id) for an id given
\* before that call returns false at once and does nothing.
C16_StopTaskAfterStopAllDoesNothing ==
  (tmOp = "StopTask" /\ tmId < stoppedAllAt) =>
    (tmPc = "idle" /\ tmRet = "false" /\ tmLog = <<>>)

\* C17: in StopAllTasks (called by the client or by the destructor) every
\* stop request precedes every join, and no join begins while the token of a
\* task that was in the table at the call has not been requested to stop.
C17_RequestsBeforeJoins ==
  (tmOp \in {"StopAllTasks", "~TaskManager"} /\ tmPc \in {"all_join", "idle", "destroyed"}) =>
    /\ \A i, j \in 1 .. Len(tmLog) :
         (tmLog[i][1] = "request_stop" /\ tmLog[j][1] = "join") => i < j
    /\ tmSnap.threads \subseteq tokenStopped

\* C18: StopAllTasks() on a manager with no tasks, as at a second call in a
\* row, requests no stop, joins nothing and leaves the manager as it was.
C18_StopAllTasksIdempotent ==
  /\ (tmOp = "StopAllTasks" /\ tmPrev = "StopAllTasks") =>
       (tmSnap.threads = {} /\ tmSnap.sources = <<>>)
  /\ (tmOp = "StopAllTasks" /\ tmSnap.threads = {}) =>
       /\ tmLog = <<>>
       /\ tmPc # "crashed"
       /\ Manager = tmSnap

\* C18 witness: a second StopAllTasks() in a row has returned, after tasks
\* had been started.
C18_Witness ==
  /\ tmOp = "StopAllTasks" /\ tmPrev = "StopAllTasks" /\ tmPc = "idle"
  /\ m_taskId = 2 /\ tmLog = <<>>

\* C19: when the destructor of the manager completes, stop was requested on
\* every task that was in the table and every such thread is joined: no
\* worker is running; and the destructor waits only for workers that have
\* been requested to stop.
C19_NoWorkerOutlivesManager ==
  /\ tmPc = "destroyed" =>
       /\ \A id \in TaskIds : worker[id] \in {"none", "joined"}
       /\ tmSnap.threads \subseteq (tokenStopped \cap Logged("join"))
       /\ m_threads = {} /\ m_stopSources = <<>>
  /\ (tmOp = "~TaskManager" /\ tmPc = "all_join") => Unjoined \subseteq tokenStopped

\* C20: the n-th StartTask call, counted from 0, gives id n, so no id is
\* given twice, also after StopTask or StopAllTasks removed tasks.
C20_IdsAreSequential ==
  /\ \A n \in 1 .. Len(issuedIds) : issuedIds[n] = n - 1
  /\ Len(issuedIds) = m_taskId

\* C20 witness: the third StartTask call came after a StopAllTasks() that
\* removed the first two tasks, and gave id 2.
C20_Witness ==
  /\ tmOp = "StartTask" /\ tmPrev = "StopAllTasks"
  /\ tmSnap.threads = {}
  /\ issuedIds = <<0, 1, 2>>
  /\ m_threads = {2}

-----------------------------------------------------------------------------
(* Properties of DequeSafe (SpecDeque, SpecStress)                          *)

FrontPops == {"try_pop_front", "wait_and_pop_front"}
BackPops == {"try_pop_back", "wait_and_pop_back"}

\* The pops at the front that gave an element pushed with push_back, in the
\* order they took effect.
FrontPopsOfBack ==
  SelectSeq(popLog, LAMBDA e : e.op \in FrontPops /\ e.cell \in DOMAIN pushLog
                                /\ pushLog[e.cell].op = "push_back")

\* C21: the elements pushed with push_back leave at the front in push_back
\* order (cells are numbered in the order the pushes took effect) and with
\* the value that was pushed, whatever another thread does at the other
\* ends; and while only push_back and pops at the front have happened, the
\* k pops so far gave the first k elements pushed.
C21_FifoFromOneEnd ==
  /\ \A i \in DOMAIN FrontPopsOfBack :
       /\ FrontPopsOfBack[i].value = pushLog[FrontPopsOfBack[i].cell].value
       /\ \A j \in DOMAIN FrontPopsOfBack :
            i < j => FrontPopsOfBack[i].cell < FrontPopsOfBack[j].cell
  /\ (dqRole["t1"] = "back_producer" /\ caller["t3"].calls = 0) =>
       \A i \in DOMAIN popLog :
         popLog[i].cell = i /\ popLog[i].value = pushLog[i].value

\* Two elements pushed with push_back were popped at the front, in order,
\* while the third thread pushed at the front.
C21_Witness ==
  /\ dqRole["t1"] = "back_producer"
  /\ Len(FrontPopsOfBack) = 2
  /\ FrontPopsOfBack[1].value # FrontPopsOfBack[2].value
  /\ \E i \in DOMAIN pushLog : pushLog[i].op = "push_front"

\* Every thread has made all its calls and is back from the last.
AllReturned ==
  \A t \in DequeThreads : caller[t].pc = "idle" /\ caller[t].calls = dqPlan[t]

\* The number of calls the threads of a role make.
Planned(role) ==
  LET n(t) == IF dqRole[t] = role THEN dqPlan[t] ELSE 0
  IN n("t1") + n("t2") + n("t3") + n("t4")

\* Every element pushed was handed out exactly once, with its value.
ConsumedIsPushed ==
  /\ \A c \in DOMAIN pushLog : Cardinality({i \in DOMAIN popLog : popLog[i].cell = c}) = 1
  /\ \A i \in DOMAIN popLog :
       popLog[i].cell \in DOMAIN pushLog /\ popLog[i].value = pushLog[popLog[i].cell].value

TwoProducersTwoConsumers == dqRole = Roles("producer", "producer", "consumer", "consumer")

\* C22: two producers and two consumers whose pushes and blocking pops are
\* equal in number always get to the end: every thread has returned from its
\* last call, the deque is empty, and the elements consumed are the elements
\* pushed, each once.
C22_StressEndsEmpty ==
  (TwoProducersTwoConsumers /\ Planned("producer") = Planned("consumer"))
    ~> (AllReturned /\ m_container = <<>> /\ ConsumedIsPushed)

\* The end of such a run in which both kinds of push and both kinds of pop
\* took part.
C22_Witness ==
  /\ TwoProducersTwoConsumers
  /\ AllReturned
  /\ Len(popLog) = 3
  /\ {pushLog[i].op : i \in DOMAIN pushLog} = PushOps
  /\ {popLog[i].op : i \in DOMAIN popLog} = WaitOps
  /\ spurious = 1

\* Thread t is in a call of wait_and_pop_front.
InWaitAndPopFront(t) ==
  caller[t].op = "wait_and_pop_front" /\ caller[t].pc \in {"locked", "waiting", "woken"}

\* C23: with no thread that pushes, a blocking pop at the front of the empty
\* deque eventually returns, and the deque is still empty.
C23_BlockingPopReturns ==
  \A t \in DequeThreads :
    (Planned("producer") = 0 /\ InWaitAndPopFront(t))
      ~> (caller[t].pc = "idle" /\ m_container = <<>>)

\* Thread t is in a call of wait_and_pop_front or wait_and_pop_back.
InWaitAndPop(t) ==
  caller[t].op \in WaitOps /\ caller[t].pc \in {"locked", "waiting", "woken"}

\* Every element a pop has handed out is an element that was pushed, handed
\* out once, with its value.
PoppedIsReal ==
  \A i \in DOMAIN popLog :
    /\ popLog[i].cell \in DOMAIN pushLog
    /\ popLog[i].value = pushLog[popLog[i].cell].value
    /\ \A j \in DOMAIN popLog : popLog[j].cell = popLog[i].cell => i = j

\* C24: a blocking pop returns only an element that was pushed and not yet
\* handed out, also after a spurious wake-up; and when the producers push at
\* least as often as the consumers pop, every blocking pop returns.
C24_NoLostWakeup ==
  /\ []PoppedIsReal
  /\ \A t \in DequeThreads :
       (Planned("producer") >= Planned("consumer") /\ InWaitAndPop(t))
         ~> (caller[t].pc = "idle")

\* Two consumers waited at the same time, one woke up spuriously, and all
\* pops have returned.
C24_Witness ==
  /\ Planned("producer") >= Planned("consumer")
  /\ dqRole["t4"] = "consumer"
  /\ AllReturned
  /\ spurious = 1
  /\ Len(popLog) = Planned("consumer")

\* Thread t returns from try_pop_front / try_pop_back in this step.
TryPopReturns(t) ==
  /\ caller[t].pc = "locked"
  /\ caller[t].op \in TryOps
  /\ caller'[t].pc = "idle"

\* What the caller got from a pop: its output variable, or the pointee.
Given(c) == IF c.form = "value" THEN c.value ELSE c.got

TryPopStep(t) ==
  IF m_container = <<>>
  THEN /\ m_container' = <<>>
       /\ caller'[t].value = caller[t].value
       /\ caller'[t].res = (IF caller[t].form = "value" THEN "false" ELSE "null")
       /\ m_condition' = m_condition
       /\ m_semaphore' = "free"
  ELSE /\ caller'[t].res = (IF caller[t].form = "value" THEN "true" ELSE "ptr")
       /\ caller[t].op = "try_pop_front" =>
            /\ Given(caller'[t]) = Front(m_container).value
            /\ m_container' = Tail(m_container)
       /\ caller[t].op = "try_pop_back" =>
            /\ Given(caller'[t]) = Back(m_container).value
            /\ m_container' = PopBack(m_container)

\* C25: a thread in try_pop_front / try_pop_back never waits on the
\* condition variable; its return from an empty deque gives false / a null
\* pointer and changes neither the deque nor the caller's output variable;
\* from a non-empty deque it removes and gives the first, respectively the
\* last, element.
C25_TryPopNeverBlocks ==
  /\ [](\A t \in DequeThreads :
         caller[t].op \in TryOps =>
           t \notin m_condition /\ caller[t].pc \notin {"waiting", "woken"})
  /\ [][\A t \in DequeThreads : TryPopReturns(t) => TryPopStep(t)]_vars

\* A try_pop_front that found the deque empty, after a pop had assigned to
\* the caller's variable.
C25_Witness ==
  \E t \in DequeThreads :
    /\ caller[t].op = "try_pop_front"
    /\ caller[t].pc = "idle"
    /\ caller[t].res = "false"
    /\ caller[t].value # Indeterminate

\* C26: a thread that is in no DequeSafe operation, and so does not hold the
\* mutex, holds no reference to an element stored in m_container.
C26_NoAccessWithoutLock ==
  \A t \in DequeThreads :
    caller[t].pc = "idle" =>
      \A i \in DOMAIN m_container : caller[t].ref # RefTo(m_container[i].cell)

\* C27: the mutex is held only by a thread that is inside an operation and
\* not blocked in a wait (or by the thread in whose call the process ended);
\* with no thread inside an operation it is free.
C27_MutexHeldOnlyInside ==
  /\ \A t \in DequeThreads :
       m_semaphore = t => caller[t].pc \in {"locked", "crashed"}
  /\ (\A t \in DequeThreads : caller[t].pc = "idle") => m_semaphore = "free"

\* A thread is blocked in wait_and_pop_* while another thread holds the
\* mutex.
C27_Witness ==
  \E t, u \in DequeThreads :
    /\ caller[t].pc = "waiting"
    /\ caller[u].pc = "locked"
    /\ m_semaphore = u

-----------------------------------------------------------------------------
(* Properties of queueLockFree (SpecQueue, SpecQueueMulti)                  *)

\* Node t is reached from node n by at most k next links.
RECURSIVE ReachIn(_, _, _)
ReachIn(n, t, k) ==
  \/ n = t
  \/ k > 0 /\ n \in DOMAIN nodes /\ ReachIn(nodes[n].m_next, t, k - 1)

TailReachable == ReachIn(m_head, m_tail, Len(nodes))

\* The number of next links from node n to the tail, following at most k.
RECURSIVE LinksIn(_, _)
LinksIn(n, k) ==
  IF n = m_tail \/ k = 0 \/ n \notin DOMAIN nodes THEN 0
  ELSE 1 + LinksIn(nodes[n].m_next, k - 1)

\* No thread is inside a queue operation.
QueueQuiet == \A t \in QueueThreads : qcaller[t].pc = "idle"

\* C28: with one producer and one consumer the non-empty results the
\* consumer got so far are the values of the first pushes, in push order,
\* each from a push that had returned; and when both threads are outside an
\* operation and as many values were popped as pushed, m_head = m_tail.
C28_SpscFifo ==
  /\ Len(qPopLog) <= published
  /\ \A i \in DOMAIN qPopLog :
       qPopLog[i].value # nullptr /\ qPopLog[i].value = qPushLog[i]
  /\ (QueueQuiet /\ Len(qPopLog) = Len(qPushLog)) => m_head = m_tail

\* The consumer popped every value of at least two pushes, one of them while
\* the producer was inside a later push, and once found the queue empty.
C28_Witness ==
  /\ QueueQuiet
  /\ Len(qPushLog) >= 2
  /\ Len(qPopLog) = Len(qPushLog)
  /\ qPopLog[1].value # qPopLog[2].value
  /\ qcaller["c1"].calls > Len(qPopLog)

\* C29: with several threads pushing or several threads popping at the same
\* time the process does not end abnormally, no node is deleted twice, no
\* node is handed out twice, every result of a successful pop_head carries a
\* value, the tail is reached from the head by next links, and when all
\* calls have returned the values handed out and the values still linked
\* between head and tail are as many as were pushed.
C29_MultiThreadSafe ==
  /\ \A t \in QueueThreads : qcaller[t].pc # "crashed"
  /\ ~freedTwice
  /\ \A i, j \in DOMAIN qPopLog : qPopLog[i].node = qPopLog[j].node => i = j
  /\ \A i \in DOMAIN qPopLog : qPopLog[i].value # nullptr
  /\ TailReachable
  /\ QueueQuiet => Len(qPopLog) + LinksIn(m_head, Len(nodes)) = Len(qPushLog)

\* C30: with one producer and one consumer m_head and m_tail always
\* designate nodes that exist and are not deleted, the tail is reached from
\* the head by next links, and m_head = m_tail exactly when as many pushes
\* have published their node (m_tail.store, the last statement of push) as
\* pops have taken one (m_head.store); in particular, with both threads
\* outside an operation, exactly when as many values were popped as pushed.
C30_HeadTailInvariant ==
  /\ Live(m_head)
  /\ Live(m_tail)
  /\ TailReachable
  /\ (m_head = m_tail) <=> (published = removed)
  /\ LinksIn(m_head, Len(nodes)) = published - removed
  /\ QueueQuiet => ((m_head = m_tail) <=> (Len(qPushLog) = Len(qPopLog)))

\* A push is about to publish its node while a pop has just advanced the
\* head; one element is in the queue.
C30_Witness ==
  /\ qcaller["p1"].pc = "publish"
  /\ qcaller["c1"].pc = "take"
  /\ published = 2
  /\ removed = 1
  /\ m_head # m_tail

\* The thread that uses the queue alone.
Client == "c1"

\* The values pushed and not yet popped, oldest first.
InQueue == SubSeq(qPushLog, Len(qPopLog) + 1, Len(qPushLog))

\* The last call of the client was op and has returned.
QReturned(op) == qcaller[Client].pc = "idle" /\ qcaller[Client].op = op

\* The payload of the node a peek returned.
Viewed == nodes[qcaller[Client].res].m_dataSp

\* C31: when front() or back() has returned to the only user of the queue,
\* the result is null if the queue holds no element; otherwise it is a node
\* that is not deleted, and the payload of the node front() returned is the
\* oldest value not yet popped, the payload of the node back() returned is
\* the value pushed last.
C31_PeeksViewElements ==
  /\ QReturned("front") =>
       IF InQueue = <<>> THEN qcaller[Client].res = nullptr
       ELSE Live(qcaller[Client].res) /\ Viewed = InQueue[1]
  /\ QReturned("back") =>
       IF InQueue = <<>> THEN qcaller[Client].res = nullptr
       ELSE Live(qcaller[Client].res) /\ Viewed = InQueue[Len(InQueue)]

\* The steps of a try_pop() / pop() call of thread t.
PopEnters(t) == qcaller[t].pc = "idle" /\ qcaller'[t].pc = "test"
PopTests(t) == qcaller[t].pc = "test" /\ qcaller'[t].pc # "test"
PopAdvances(t) == qcaller[t].pc = "advance" /\ qcaller'[t].pc # "advance"
PopTakes(t) == qcaller[t].pc = "take" /\ qcaller'[t].pc # "take"

\* Only node n differs between nodes and nodes'.
OnlyNodeChanged(n) ==
  /\ DOMAIN nodes' = DOMAIN nodes
  /\ \A k \in DOMAIN nodes : k # n => nodes'[k] = nodes[k]

PopStep(t) ==
  /\ PopEnters(t) => UNCHANGED <<m_head, m_tail, nodes>>
  /\ PopTests(t) =>
       /\ UNCHANGED <<m_head, m_tail, nodes, qPopLog>>
       /\ IF m_head = m_tail
          THEN qcaller'[t].pc = "idle" /\ qcaller'[t].res = nullptr
          ELSE qcaller'[t].pc = "advance"
  /\ PopAdvances(t) =>
       /\ qcaller'[t].pc = "take"
       /\ m_head # m_tail
       /\ m_head' = nodes[m_head].m_next
       /\ m_head' # m_head
       /\ Live(m_head')
       /\ UNCHANGED <<m_tail, nodes>>
  /\ PopTakes(t) =>
       /\ qcaller'[t].pc = "idle"
       /\ qcaller'[t].res = nodes[qcaller[t].old_head].m_dataSp
       /\ nodes[qcaller[t].old_head].m_next = m_head
       /\ OnlyNodeChanged(qcaller[t].old_head)
       /\ UNCHANGED <<m_head, m_tail>>

\* C32: every step of a try_pop() or pop() call: with m_head = m_tail the
\* call returns an empty pointer and m_head, m_tail and the nodes stay as
\* they are; otherwise m_head moves to the next node of the old head, once,
\* and the call returns the payload of the old head node, the only node it
\* touches.
C32_PopEmptyOrAdvance == [][\A t \in QueueThreads : PopStep(t)]_vars

\* A pop() found the queue empty and a later try_pop() returned a value.
C32_Witness ==
  /\ qcaller["c1"].pc = "idle"
  /\ qcaller["c1"].op = "try_pop"
  /\ qcaller["c1"].res # nullptr
  /\ qcaller["c1"].calls = 2
  /\ Len(qPopLog) = 1

\* Thread t is inside push() and has not yet executed m_tail.store(p).
InPush(t) == qcaller[t].pc \in {"load_tail", "swap", "link", "publish"}

\* C33: with one producer and one consumer, the new node of a push is not
\* the tail before the last statement of push, and when push is about to
\* execute it the old tail node holds the pushed value and its next link
\* designates the new node; a pop that has found head # tail has a head node
\* with a payload and a next link, a pop that has advanced the head left it
\* non-null, and no successful pop returned an empty payload.
C33_PublishAfterWrite ==
  /\ \A t \in QueueThreads :
       /\ InPush(t) => m_tail # qcaller[t].p
       /\ qcaller[t].pc = "publish" =>
            /\ qcaller[t].old_tail = m_tail
            /\ nodes[m_tail].m_dataSp = qPushLog[Len(qPushLog)]
            /\ nodes[m_tail].m_next = qcaller[t].p
       /\ qcaller[t].pc = "advance" =>
            /\ nodes[qcaller[t].old_head].m_dataSp # nullptr
            /\ nodes[qcaller[t].old_head].m_next # nullptr
       /\ qcaller[t].pc = "take" =>
            /\ m_head # nullptr
            /\ nodes[qcaller[t].old_head].m_dataSp # nullptr
  /\ \A i \in DOMAIN qPopLog : qPopLog[i].value # nullptr

\* The consumer has found head # tail while the producer, inside its next
\* push, has written the payload of the tail node but not yet its link.
C33_Witness ==
  /\ qcaller["c1"].pc = "advance"
  /\ qcaller["p1"].pc = "link"
  /\ published = 1
  /\ nodes[m_tail].m_dataSp # nullptr
  /\ nodes[m_tail].m_next = nullptr

\* The alive wrappers that hold thread i.
Owners(i) == {w \in Wrappers : scoped[w].alive /\ scoped[w].m_thread = i}

\* C34: the process was not ended by std::terminate(), no thread was joined
\* twice, every started thread that is not yet joined is held by exactly
\* one existing wrapper, and a joined thread by none; so when no wrapper
\* exists every started thread has been joined exactly once.
C34_JoinedExactlyOnce ==
  /\ ~terminate_called
  /\ \A i \in DOMAIN osThread :
       /\ osThread[i].joins <= 1
       /\ osThread[i].joins = 0 => Cardinality(Owners(i)) = 1
       /\ osThread[i].joins = 1 => Owners(i) = {}

\* Both process_executing calls have returned.
Ticked == tickRets # <<>>

\* C35 as stated: for minimum delays a <= b, tick(a) <= tick(b).
C35_TickMonotone ==
  (Ticked /\ tickArgs[1] <= tickArgs[2]) => tickRets[1] <= tickRets[2]

\* C35, amended: for minimum delays 0 <= a <= b the policy is monotone on
\* each side of the 5000 ms ceiling and drops across it: with b <= 5000,
\* tick(a) = a + 1000 <= tick(b) = b + 1000; with a > 5000, tick(a) =
\* tick(b) = 1000; with a <= 5000 < b, tick(b) = 1000 <= tick(a) = a + 1000.
C35_TickMonotoneBelowCeiling ==
  (Ticked /\ tickArgs[1] <= tickArgs[2]) =>
    /\ tickArgs[2] <= 5000 =>
         /\ tickRets[1] = tickArgs[1] + 1000
         /\ tickRets[2] = tickArgs[2] + 1000
         /\ tickRets[1] <= tickRets[2]
    /\ tickArgs[1] > 5000 => tickRets[1] = 1000 /\ tickRets[2] = 1000
    /\ (tickArgs[1] <= 5000 /\ tickArgs[2] > 5000) =>
         /\ tickRets[2] = 1000
         /\ tickRets[1] = tickArgs[1] + 1000
         /\ tickRets[2] <= tickRets[1]

\* The calls with 5000 ms and 5001 ms returned 6000 ms and 1000 ms.
C35_Witness ==
  /\ tickArgs = <<5000, 5001>>
  /\ tickRets = <<6000, 1000>>

\* The states is_running() does not dispatch, and the ones it does.
Settled == {"start", "running", "stop"}
Transient == {"reload", "user1", "user2"}

\* is_running() has returned, was entered with a state of Settled, and no
\* signal was delivered during the call.
SettledPollReturned ==
  Returned("is_running") /\ ~obs.sigSinceCall /\ obs.entry \in Settled

\* Such a call stored nothing, invoked no callback and left the state.
SettledPollDidNothing == opTrace = <<>> /\ m_state = obs.entry

InvokesTransient ==
  /\ Len(opTrace') = Len(opTrace) + 1
  /\ opTrace'[Len(opTrace')][1] = "call"
  /\ opTrace'[Len(opTrace')][2] \in Transient

Stored == [i \in 1 .. Len(m_container) |-> m_container[i].value]

\* C37: in every sequential history the values in the deque are the
\* abstract sequence on which push_front prepended, push_back appended, the
\* front pops removed the first and the back pops the last element and
\* clear removed all; and every call that returned gave its caller what the
\* operation reports on that sequence (front() and back() on a sequence
\* that is not empty).
C37_RefinesSequence ==
  /\ Stored = abstract
  /\ absResult.defined => absResult.given = absResult.val

\* After push_back and push_front, back() returned the element pushed first.
C37_Witness ==
  /\ caller["t1"].pc = "idle"
  /\ caller["t1"].op = "back"
  /\ caller["t1"].calls = 3
  /\ Len(abstract) = 2
  /\ abstract[1] # abstract[2]
  /\ pushLog[1].op = "push_back"
  /\ pushLog[2].op = "push_front"
  /\ absResult.given = <<abstract[2]>>

\* C38: whenever the client is in no TaskManager operation, m_stopSources
\* has as many elements as m_threads has entries, and for every id in
\* m_threads the element StopTask(id) selects, m_stopSources[id], is the
\* stop source whose token thread id was started with.
C38_SourcesMatchThreads ==
  tmPc = "idle" =>
    /\ Len(m_stopSources) = Cardinality(m_threads)
    /\ \A id \in m_threads :
         /\ id < Len(m_stopSources)
         /\ m_stopSources[id + 1] = id

\* main() is past the main loop, at or after the statement named.
AfterRequestStop == mainPc \in {"lock", "notify_all", "unlock", "join", "close_all",
                                "close_all_result"}
AfterJoin == mainPc \in {"close_all", "close_all_result"}

\* The application task thread was created and has not returned: it can
\* still call process_executing.
TaskCanTick == taskPc \notin {"none", "done"}

\* This step is a call of close_all().
CloseAllIsCalled == pc = "idle" /\ pc' = "close_all_if"

\* C39: once main() has left the main loop the stop request is made before
\* the notification under the mutex and the join, and close_all() is called
\* only after the join, when the task function has returned: close_all()
\* and the before-close callback never run while the task can still tick;
\* close_all() is called from line 400 only, never a second time, and a
\* process that created the task and exited has called it.
C39_WindDownOrder ==
  /\ [](/\ AfterRequestStop => stop_requested
        /\ AfterJoin => ~TaskCanTick
        /\ lastOp = "close_all" => (~TaskCanTick /\ stop_requested)
        /\ (mainPc = "exit" /\ taskPc # "none") =>
             (lastOp = "close_all" /\ pc = "idle" /\ taskPc = "done"))
  /\ [][/\ CloseAllIsCalled => (mainPc = "close_all" /\ lastOp # "close_all")
        /\ lastOp = "close_all" => lastOp' = "close_all"]_vars

\* main() exited after close_all() ran the before-close callback; the task
\* function had returned.
C39_Witness ==
  /\ mainPc = "exit"
  /\ lastOp = "close_all"
  /\ Calls(opTrace) # <<>>
  /\ taskPc = "done"
  /\ stop_requested

\* The task is past the tick of the current turn of its loop.
PastTick == {"lock", "wait_for", "waiting", "woken", "unlock", "check_stop", "return",
             "done"}

\* C40: once stop is requested the task function eventually returns and
\* main's join eventually completes, whatever the order of the stop
\* request, the two notifications and the task's steps; and after the
\* request the task that is past its tick does not tick again, so it waits
\* at most once more, for at most one tick delay.
C40_TaskObservesStop ==
  /\ (stop_requested /\ taskPc # "none") ~> (taskPc = "done")
  /\ (mainPc = "join") ~> (mainPc = "close_all")
  /\ [][(stop_requested /\ taskPc \in PastTick) => taskPc' # "tick"]_vars

\* Both notifications came before the task started to wait: main() is at
\* the join and the task waits with nobody left to notify it.
C40_Witness ==
  /\ stop_requested
  /\ mainPc = "join"
  /\ taskPc = "waiting"
  /\ event_mutex = "free"

====
